---- MODULE Spec2Model ----
(***************************************************************************)
(* Budget tracker: the Express REST API of backend/server.js over the      *)
(* transactions table of database/postgres-schema.sql, and the parts of    *)
(* the React client (frontend/src/App.jsx) that send requests to it.       *)
(*                                                                         *)
(* Conventions.  A JavaScript value is a record [t, n, s]: t is its type   *)
(* tag, n its numeric payload and s its characters.  Numbers are fixed     *)
(* point, counted in thousandths (12.5 is 12500), so that the two-digit    *)
(* rounding of DECIMAL(10,2) is visible.  Strings are sequences of         *)
(* one-character strings, so that parseFloat, parseInt and the text        *)
(* comparison of dates are computed character by character.                *)
(***************************************************************************)
EXTENDS Integers, Sequences, FiniteSets, TLC

\* ------------------------------------------------------------------ bounds
\* Largest id the id sequence hands out (the table holds at most MaxId rows).
MaxId == 2
\* Largest number of handlers suspended at an await at the same time.
MaxInFlight == 2
\* Largest number of requests between two moments at which no handler is
\* suspended (SpecConc).
MaxBatch == 2
\* Largest number of requests of the frontend that have not reached the
\* server, and of transactions requests it awaits (SpecUi).
MaxOutbox == 2
MaxFetching == 1
\* Largest number of rows of a list the component sorts (SpecSort).
MaxSortLen == 3
\* The rows kept as a count (bulk): enough to fill the page of the Unpaid tab.
MaxBulk == 1000
\* The lengths of the CORS_ORIGINS values and of the Origin headers tried.
MaxEnvLen == 3
MaxOriginLen == 2
\* The requests of the add and edit forms under way at once.
MaxFormRequests == 1

\* ------------------------------------------------------- JavaScript values
JsUndefined == [t |-> "undefined", n |-> 0, s |-> <<>>]
JsNull == [t |-> "null", n |-> 0, s |-> <<>>]
JsNaN == [t |-> "NaN", n |-> 0, s |-> <<>>]
JsBool(b) == [t |-> "boolean", n |-> IF b THEN 1 ELSE 0, s |-> <<>>]
JsNum(m) == [t |-> "number", n |-> m, s |-> <<>>]
JsStr(cs) == [t |-> "string", n |-> 0, s |-> cs]

\* ToBoolean: what `!x` and `x || y` test.
Truthy(v) ==
    CASE v.t = "undefined" -> FALSE
      [] v.t = "null" -> FALSE
      [] v.t = "NaN" -> FALSE
      [] v.t = "boolean" -> v.n = 1
      [] v.t = "number" -> v.n # 0
      [] OTHER -> v.s # <<>>

\* `x || null`
OrNull(v) == IF Truthy(v) THEN v ELSE JsNull

Digits == <<"0", "1", "2", "3", "4", "5", "6", "7", "8", "9">>
IsDigit(c) == \E i \in 1..10 : Digits[i] = c
DigitVal(c) == (CHOOSE i \in 1..10 : Digits[i] = c) - 1

\* Length of the run of digits of cs that starts at position i.
RECURSIVE DigitRun(_, _)
DigitRun(cs, i) ==
    IF i <= Len(cs) /\ IsDigit(cs[i]) THEN 1 + DigitRun(cs, i + 1) ELSE 0

\* Value of the k digits of cs that start at position i.
RECURSIVE DigitsValue(_, _, _)
DigitsValue(cs, i, k) ==
    IF k = 0 THEN 0
    ELSE 10 * DigitsValue(cs, i, k - 1) + DigitVal(cs[i + k - 1])

\* The first three fraction digits, in thousandths.
FractionValue(cs, i, k) ==
    LET d(j) == IF j <= k THEN DigitVal(cs[i + j - 1]) ELSE 0
    IN  100 * d(1) + 10 * d(2) + d(3)

\* Length of the longest prefix of cs that is a decimal literal (an optional
\* sign, digits, an optional fraction); 0 when there is none.
NumericPrefixLen(cs) ==
    LET signed == Len(cs) >= 1 /\ cs[1] \in {"-", "+"}
        p == IF signed THEN 2 ELSE 1
        k == DigitRun(cs, p)
        dot == p + k <= Len(cs) /\ cs[p + k] = "."
        f == IF dot THEN DigitRun(cs, p + k + 1) ELSE 0
    IN  IF k = 0 /\ f = 0 THEN 0
        ELSE IF f > 0 THEN p + k + f
        ELSE IF dot /\ k > 0 THEN p + k
        ELSE p + k - 1

\* parseFloat of a string: an optional sign, digits, an optional fraction;
\* whatever follows the longest such prefix is ignored, and NaN when there is
\* no such prefix.
ParseFloatStr(cs) ==
    LET signed == Len(cs) >= 1 /\ cs[1] \in {"-", "+"}
        p == IF signed THEN 2 ELSE 1
        k == DigitRun(cs, p)
        dot == p + k <= Len(cs) /\ cs[p + k] = "."
        f == IF dot THEN DigitRun(cs, p + k + 1) ELSE 0
        mag == 1000 * DigitsValue(cs, p, k) + FractionValue(cs, p + k + 1, f)
    IN  IF k = 0 /\ f = 0 THEN JsNaN
        ELSE JsNum(IF signed /\ cs[1] = "-" THEN 0 - mag ELSE mag)

\* parseFloat(x): x is converted to a string first, so a number parses to
\* itself and undefined, null and booleans to NaN.
parseFloat(v) ==
    CASE v.t = "number" -> v
      [] v.t = "string" -> ParseFloatStr(v.s)
      [] OTHER -> JsNaN

isNaN(v) == v.t = "NaN"

\* parseInt of a string or a number (query parameters and defaults).
parseInt(v) ==
    CASE v.t = "number" -> JsNum(1000 * (v.n \div 1000))
      [] v.t = "string" ->
            LET neg == v.s # <<>> /\ v.s[1] = "-"
                from == IF neg THEN 2 ELSE 1
                k == DigitRun(v.s, from)
            IN  IF k = 0 THEN JsNaN
                ELSE JsNum((IF neg THEN 0 - 1000 ELSE 1000) * DigitsValue(v.s, from, k))
      [] OTHER -> JsNaN


\* ------------------------------------------------------------------- dates
Pad2(k) == <<Digits[(k \div 10) + 1], Digits[(k % 10) + 1]>>
Pad4(k) == Pad2(k \div 100) \o Pad2(k % 100)
\* The text YYYY-MM-DD.
IsoDate(y, m, d) == Pad4(y) \o <<"-">> \o Pad2(m) \o <<"-">> \o Pad2(d)
\* The text YYYY-MM.
IsoMonth(y, m) == Pad4(y) \o <<"-">> \o Pad2(m)

\* Character codes, for the byte-wise comparison of TEXT values.
CharCode(c) ==
    CASE IsDigit(c) -> 48 + DigitVal(c)
      [] c = "+" -> 43
      [] c = "-" -> 45
      [] c = "." -> 46
      [] c = "T" -> 84
      [] c = "a" -> 97
      [] c = "b" -> 98
      [] c = "c" -> 99
      [] OTHER -> 122

\* a <= b in the byte order of two texts (SQLite's BINARY collation).
RECURSIVE TextLeqFrom(_, _, _)
TextLeqFrom(a, b, i) ==
    IF i > Len(a) THEN TRUE
    ELSE IF i > Len(b) THEN FALSE
    ELSE IF CharCode(a[i]) < CharCode(b[i]) THEN TRUE
    ELSE IF CharCode(a[i]) > CharCode(b[i]) THEN FALSE
    ELSE TextLeqFrom(a, b, i + 1)
TextLeq(a, b) == TextLeqFrom(a, b, 1)

\* The calendar day a YYYY-MM-DD text denotes, as the number YYYYMMDD
\* (PostgreSQL's DATE values compare by calendar day).
DateKey(cs) ==
    10000 * DigitsValue(cs, 1, 4) + 100 * DigitsValue(cs, 6, 2) + DigitsValue(cs, 9, 2)

\* date <= bound, as each database compares them: SQLite compares the texts,
\* PostgreSQL the DATE column with the parameter cast to DATE.
DateLeq(sqlite, a, b) ==
    IF sqlite THEN TextLeq(a, b) ELSE DateKey(a) <= DateKey(b)


\* ----------------------------------------------------------------- requests
\* A request body (req.body after express.json): the six fields the handlers
\* read; JsUndefined is a field the body does not carry.
MkBody(date, name, description, budget_type, amount, payedOff) ==
    [date |-> date, name |-> name, description |-> description,
     budget_type |-> budget_type, amount |-> amount, payedOff |-> payedOff]
NoBody ==
    MkBody(JsUndefined, JsUndefined, JsUndefined, JsUndefined, JsUndefined, JsUndefined)

\* A query string (req.query): every parameter is a string or is absent.
MkQuery(budget_type, start_date, end_date, limit, offset, month) ==
    [budget_type |-> budget_type, start_date |-> start_date, end_date |-> end_date,
     limit |-> limit, offset |-> offset, month |-> month]
NoQuery ==
    MkQuery(JsUndefined, JsUndefined, JsUndefined, JsUndefined, JsUndefined, JsUndefined)

Day1 == JsStr(IsoDate(2025, 1, 5))
Day2 == JsStr(IsoDate(2025, 1, 20))
Day3 == JsStr(IsoDate(2025, 2, 10))
CatA == JsStr(<<"a">>)
CatB == JsStr(<<"b">>)

\* The bodies the model sends.  Accepted by the handlers: a number; a numeric
\* string with three decimals and an empty name; a string with a numeric
\* prefix; a negative number.
BodyNumber == MkBody(Day1, JsStr(<<"a">>), JsUndefined, CatA, JsNum(12500), JsBool(FALSE))
BodyNumericString ==
    MkBody(Day2, JsStr(<<>>), JsStr(<<"b">>), CatB, JsStr(<<"7", ".", "0", "0", "5">>),
           JsUndefined)
BodyNumericPrefix ==
    MkBody(Day3, JsUndefined, JsUndefined, CatA, JsStr(<<"1", "2", "a", "b", "c">>),
           JsBool(TRUE))
BodyNegative == MkBody(Day2, JsStr(<<"c">>), JsUndefined, CatA, JsNum(0 - 5000), JsBool(FALSE))
\* Rejected: no date, an empty category, no amount, an amount that does not
\* parse.
BodyNoDate == MkBody(JsUndefined, JsUndefined, JsUndefined, CatA, JsNum(12500), JsUndefined)
BodyNoCategory == MkBody(Day1, JsUndefined, JsUndefined, JsStr(<<>>), JsNum(12500), JsUndefined)
BodyNoAmount == MkBody(Day1, JsUndefined, JsUndefined, CatA, JsUndefined, JsUndefined)
BodyNotNumeric ==
    MkBody(Day1, JsUndefined, JsUndefined, CatA, JsStr(<<"a", "b", "c">>), JsBool(TRUE))

Bodies ==
    { BodyNumber, BodyNumericString, BodyNumericPrefix, BodyNegative,
      BodyNoDate, BodyNoCategory, BodyNoAmount, BodyNotNumeric }

\* The ids requests name (the :id path parameter).
Ids == 1..MaxId

\* What a rejected query throws (error.message); "" is a query that resolves.
DbErrors == {"database is locked"}
DbOutcomes == {""} \cup DbErrors

\* ------------------------------------------------------------ the database
\* DECIMAL(10, 2): a value is rounded to two decimals, half away from zero.
RoundCents(m) ==
    IF m >= 0 THEN 10 * ((m + 5) \div 10) ELSE 0 - 10 * (((0 - m) + 5) \div 10)

\* The value the amount column keeps: SQLite stores the number it is given,
\* PostgreSQL rounds it to the column's scale.
StoreAmount(sqlite, v) == IF sqlite THEN v ELSE JsNum(RoundCents(v.n))

\* The row the six statement parameters make.
ColumnValues(sqlite, params) ==
    [date |-> params.date, name |-> params.name, description |-> params.description,
     budget_type |-> params.budget_type, amount |-> StoreAmount(sqlite, params.amount),
     payedOff |-> params.payedOff]

\* created_at DEFAULT CURRENT_TIMESTAMP: the moment of the INSERT that gave
\* the row its id.
InsertedAt(id) == [t |-> "timestamp", n |-> id, s |-> <<>>]

\* A row of the table: the six columns the statements set, and created_at.
StoredRow(cols, created_at) ==
    [date |-> cols.date, name |-> cols.name, description |-> cols.description,
     budget_type |-> cols.budget_type, amount |-> cols.amount, payedOff |-> cols.payedOff,
     created_at |-> created_at]

\* A stored row as a query returns it.
RowOut(T, id) ==
    [id |-> id, date |-> T[id].date, name |-> T[id].name,
     description |-> T[id].description, budget_type |-> T[id].budget_type,
     amount |-> T[id].amount, payedOff |-> T[id].payedOff, created_at |-> T[id].created_at]

\* INSERT INTO transactions (...) VALUES (...)
SqlInsert(sqlite, T, id, params) ==
    [i \in DOMAIN T \cup {id} |->
        IF i = id THEN StoredRow(ColumnValues(sqlite, params), InsertedAt(id)) ELSE T[i]]

\* Mutant: an UPDATE without its WHERE clause.
SqlUpdateEveryRow(sqlite, T, id, params) ==
    [i \in DOMAIN T |-> StoredRow(ColumnValues(sqlite, params), T[i].created_at)]

\* UPDATE transactions SET ... WHERE id = ?
SqlUpdate(sqlite, T, id, params) ==
    IF id \in DOMAIN T
    THEN [T EXCEPT ![id] = StoredRow(ColumnValues(sqlite, params), T[id].created_at)]
    ELSE T

\* Mutant: a DELETE whose WHERE clause matches no row.
SqlDeleteNoRow(T, id) == T

\* DELETE FROM transactions WHERE id = ?
SqlDelete(T, id) == [i \in DOMAIN T \ {id} |-> T[i]]

\* SELECT * FROM transactions WHERE id = ?
SqlSelectById(T, id) == IF id \in DOMAIN T THEN <<RowOut(T, id)>> ELSE <<>>


\* Every way to list the members of S, each once.
Orderings(S) ==
    {p \in [1..Cardinality(S) -> S] : \A i, j \in 1..Cardinality(S) : i # j => p[i] # p[j]}

\* Mutant: the end of the date range is excluded (date < end_date).
ListMatchesEndExcluded(sqlite, T, q) ==
    {i \in DOMAIN T :
        /\ Truthy(q.budget_type) => T[i].budget_type = q.budget_type
        /\ Truthy(q.start_date) => DateLeq(sqlite, q.start_date.s, T[i].date.s)
        /\ Truthy(q.end_date) => /\ DateLeq(sqlite, T[i].date.s, q.end_date.s)
                                 /\ T[i].date.s # q.end_date.s}

\* The ids of the rows the WHERE clause of the list query keeps: a filter
\* that is absent (or empty) adds no condition.
ListMatches(sqlite, T, q) ==
    {i \in DOMAIN T :
        /\ Truthy(q.budget_type) => T[i].budget_type = q.budget_type
        /\ Truthy(q.start_date) => DateLeq(sqlite, q.start_date.s, T[i].date.s)
        /\ Truthy(q.end_date) => DateLeq(sqlite, T[i].date.s, q.end_date.s)}

\* ORDER BY date DESC: every order of the ids in which dates do not increase
\* (rows of the same date come in an order the database chooses).
DateDescOrders(sqlite, T, S) ==
    {p \in Orderings(S) :
        \A i, j \in 1..Cardinality(S) : i < j => DateLeq(sqlite, T[p[j]].date.s, T[p[i]].date.s)}

\* Mutant: the offset is ignored.
LimitOffsetNoSkip(p, lim, off) ==
    SubSeq(p, 1, IF lim < 0 \/ lim >= Len(p) THEN Len(p) ELSE lim)

\* LIMIT lim OFFSET off.  SQLite reads a negative limit as no limit and a
\* negative offset as 0 (PostgreSQL rejects both, see LimitError).
LimitOffset(p, lim, off) ==
    LET skip == IF off < 0 THEN 0 ELSE off
    IN  IF skip >= Len(p) THEN <<>>
        ELSE SubSeq(p, skip + 1,
                    IF lim < 0 \/ skip + lim >= Len(p) THEN Len(p) ELSE skip + lim)

\* The defaults of the destructuring `limit = 100, offset = 0`.
DefaultLimit == 100
DefaultOffset == 0
OrDefault(v, d) == IF v.t = "undefined" THEN JsNum(1000 * d) ELSE v

\* The error of the list query that its LIMIT and OFFSET parameters cause,
\* "" when they cause none: NaN is no integer for either database, and
\* PostgreSQL rejects a negative LIMIT or OFFSET.
LimitError(sqlite, q) ==
    LET lim == parseInt(OrDefault(q.limit, DefaultLimit))
        off == parseInt(OrDefault(q.offset, DefaultOffset))
    IN  IF isNaN(lim) \/ isNaN(off)
        THEN IF sqlite THEN "datatype mismatch"
             ELSE "invalid input syntax for type bigint"
        ELSE IF ~sqlite /\ lim.n < 0 THEN "LIMIT must not be negative"
        ELSE IF ~sqlite /\ off.n < 0 THEN "OFFSET must not be negative"
        ELSE ""

\* The row sequences SELECT * ... ORDER BY date DESC LIMIT ? OFFSET ? may return.
SqlSelectList(sqlite, T, q) ==
    LET lim == parseInt(OrDefault(q.limit, DefaultLimit)).n \div 1000
        off == parseInt(OrDefault(q.offset, DefaultOffset)).n \div 1000
    IN  { [k \in DOMAIN LimitOffset(p, lim, off) |-> RowOut(T, LimitOffset(p, lim, off)[k])] :
            p \in DateDescOrders(sqlite, T, ListMatches(sqlite, T, q)) }

\* ---------------------------------------------------------------- responses
\* One res.status(status).json(json) call.
Send(status, json) == [status |-> status, json |-> json]

\* Mutant: the catch block hides the message of the error.
CatchResponseGeneric(err) ==
    <<Send(500, [success |-> FALSE, error |-> "Internal server error"])>>

\* The catch block of every handler.
CatchResponse(err) == <<Send(500, [success |-> FALSE, error |-> err])>>

NotFoundResponse ==
    <<Send(404, [success |-> FALSE, error |-> "Transaction not found"])>>

\* The two validation steps of POST and PUT: "" when the body passes, the
\* error message otherwise.
ValidationError(body) ==
    IF ~Truthy(body.date) \/ ~Truthy(body.amount) \/ ~Truthy(body.budget_type)
    THEN "Missing required fields: date, amount, and budget_type are required"
    ELSE IF isNaN(parseFloat(body.amount)) THEN "Amount must be a valid number"
    ELSE ""

ValidationResponse(msg) == <<Send(400, [success |-> FALSE, error |-> msg])>>

\* Mutant: the default replaces every falsy payedOff (payedOff || true).
PayedOffOrTrue(v) == IF Truthy(v) THEN v ELSE JsBool(TRUE)

\* payedOff !== undefined ? payedOff : true
PayedOffValue(v) == IF v.t # "undefined" THEN v ELSE JsBool(TRUE)

\* The params array of POST and PUT.
Params(body) ==
    [date |-> body.date, name |-> OrNull(body.name),
     description |-> OrNull(body.description), budget_type |-> body.budget_type,
     amount |-> parseFloat(body.amount), payedOff |-> PayedOffValue(body.payedOff)]

\* JSON.stringify leaves out a property whose value is undefined: rows[0] of
\* an empty result.
CreatedResponse(rows) ==
    IF rows = <<>>
    THEN <<Send(201, [success |-> TRUE, message |-> "Transaction created successfully"])>>
    ELSE <<Send(201, [success |-> TRUE, data |-> rows[1],
                      message |-> "Transaction created successfully"])>>

\* Mutant: the tail of PUT without the test for an empty result.
UpdatedResponseUnchecked(rows) ==
    IF Len(rows) = 0
    THEN <<Send(200, [success |-> TRUE, message |-> "Transaction updated successfully"])>>
    ELSE <<Send(200, [success |-> TRUE, data |-> rows[1],
                      message |-> "Transaction updated successfully"])>>

\* The tail of PUT: 404 on an empty result, the row otherwise.
UpdatedResponse(rows) ==
    IF Len(rows) = 0 THEN NotFoundResponse
    ELSE <<Send(200, [success |-> TRUE, data |-> rows[1],
                      message |-> "Transaction updated successfully"])>>

DeletedResponse(id) ==
    <<Send(200, [success |-> TRUE, message |-> "Transaction deleted successfully",
                 data |-> [id |-> id]])>>

\* The tail of GET /api/transactions/:id.
FetchedResponse(rows) ==
    IF Len(rows) = 0 THEN NotFoundResponse
    ELSE <<Send(200, [success |-> TRUE, data |-> rows[1]])>>

ListResponse(rows) ==
    <<Send(200, [success |-> TRUE, data |-> rows, count |-> Len(rows)])>>

\* Mutant: a health check that reports no success flag.
HealthResponseBare(sqlite) ==
    <<Send(200, [message |-> "API is running",
                 database |-> IF sqlite THEN "SQLite" ELSE "PostgreSQL"])>>

HealthResponse(sqlite) ==
    <<Send(200, [success |-> TRUE, message |-> "API is running",
                 database |-> IF sqlite THEN "SQLite" ELSE "PostgreSQL"])>>


\* -------------------------------------------------------------------- state
VARIABLES
    useSqlite,   \* USE_SQLITE: which database branch the process runs
    cors,        \* history: the last request the cors middleware checked, with
                 \* the CORS_ORIGINS of the process and what the callback was given
    table,       \* the transactions table: id -> row
    bulk,        \* the number of further rows of the table, each stored by a POST
                 \* of BodyBulk: they are alike, so they are kept as a count
    nextId,      \* the id the next INSERT is given (SERIAL)
    inflight,    \* slot -> the handler suspended at its second query, or Idle
    resp,        \* the request answered by the last step and what was sent, or NoResp
    created,     \* history: id -> the body of the POST that was answered 201 with
                 \*          this id and the row the 201 carried, while no UPDATE or
                 \*          DELETE has touched the row
    deletedOk,   \* history: the ids a DELETE has answered success for
    base,        \* history: the database when the current batch of requests began
    log,         \* history: the requests of the current batch answered so far
    ui           \* the state of the React component (App.jsx)

server == <<useSqlite, cors, bulk, table, nextId, inflight, resp, created, deletedOk>>
vars == <<useSqlite, cors, bulk, table, nextId, inflight, resp, created, deletedOk, base, log, ui>>

\* A handler suspended at an await: the request, the statement it runs next,
\* whether a statement of it has changed the contents of the table, and
\* whether its id has matched no row since it arrived.
MkReq(kind, pc, id, body, changed, absent) ==
    [kind |-> kind, pc |-> pc, id |-> id, body |-> body, changed |-> changed,
     absent |-> absent]
Idle == MkReq("idle", "", 0, NoBody, FALSE, FALSE)

\* An answered request: sends are the res.json calls the handler made, in
\* order; err is the message of the query that rejected ("" when none did)
\* and errAt the number of that query within the handler.
MkResp(kind, id, body, query, sends, err, errAt, changed, absent) ==
    [kind |-> kind, id |-> id, body |-> body, query |-> query, sends |-> sends,
     err |-> err, errAt |-> errAt, changed |-> changed, absent |-> absent]
NoResp == MkResp("none", 0, NoBody, NoQuery, <<>>, "", 0, FALSE, FALSE)

Slots == 1..MaxInFlight
HasFreeSlot == \E k \in Slots : inflight[k] = Idle
FreeSlot == CHOOSE k \in Slots : inflight[k] = Idle /\ \A j \in Slots : inflight[j] = Idle => k <= j

\* An INSERT gives row id: a handler waiting on that id no longer names an
\* absent row.
NoteInsert(fl, id) ==
    [k \in Slots |-> IF fl[k].id = id THEN [fl[k] EXCEPT !.absent = FALSE] ELSE fl[k]]

EmptyTable == [i \in {} |-> NoBody]

NoRow ==
    [id |-> 0, date |-> JsUndefined, name |-> JsUndefined, description |-> JsUndefined,
     budget_type |-> JsUndefined, amount |-> JsUndefined, payedOff |-> JsUndefined,
     created_at |-> JsUndefined]
NoCreated == [body |-> NoBody, row |-> NoRow]

\* No request has reached the cors middleware.
NoCorsCheck ==
    [checked |-> FALSE, env |-> JsUndefined, origin |-> JsUndefined, allowedOrigins |-> <<>>,
     error |-> ""]

InitServer ==
    /\ useSqlite \in BOOLEAN
    /\ cors = NoCorsCheck
    /\ table = EmptyTable
    /\ bulk = 0
    /\ nextId = 1
    /\ inflight = [k \in Slots |-> Idle]
    /\ resp = NoResp
    /\ created = [i \in Ids |-> NoCreated]
    /\ deletedOk = {}

\* ------------------------------------------------- GET /api/transactions
List(q) ==
    /\ \E err \in DbErrors \cup {LimitError(useSqlite, q)} :
          IF err # ""
          THEN resp' = MkResp("list", 0, NoBody, q, CatchResponse(err), err, 1, FALSE, FALSE)
          ELSE \E rows \in SqlSelectList(useSqlite, table, q) :
                  resp' = MkResp("list", 0, NoBody, q, ListResponse(rows), "", 0, FALSE, FALSE)
    /\ UNCHANGED <<useSqlite, cors, bulk, table, nextId, inflight, created, deletedOk>>

\* --------------------------------------------- GET /api/transactions/:id
\* Mutant: a fetch that removes the row it returns.
GetByIdRemoving(id) ==
    /\ \E err \in DbOutcomes :
          resp' = MkResp("get", id, NoBody, NoQuery,
                         IF err # "" THEN CatchResponse(err)
                         ELSE FetchedResponse(SqlSelectById(table, id)),
                         err, IF err # "" THEN 1 ELSE 0, FALSE, id \notin DOMAIN table)
    /\ table' = SqlDelete(table, id)
    /\ UNCHANGED <<useSqlite, cors, bulk, nextId, inflight, created, deletedOk>>

GetById(id) ==
    /\ \E err \in DbOutcomes :
          resp' = MkResp("get", id, NoBody, NoQuery,
                         IF err # "" THEN CatchResponse(err)
                         ELSE FetchedResponse(SqlSelectById(table, id)),
                         err, IF err # "" THEN 1 ELSE 0, FALSE, id \notin DOMAIN table)
    /\ UNCHANGED <<useSqlite, cors, bulk, table, nextId, inflight, created, deletedOk>>

\* ------------------------------------------------ POST /api/transactions
\* Validation, then the INSERT.  PostgreSQL answers from RETURNING *; on
\* SQLite the handler awaits db.run and goes on to a second query.
Post(body) ==
    IF ValidationError(body) # ""
    THEN /\ resp' = MkResp("post", 0, body, NoQuery,
                           ValidationResponse(ValidationError(body)), "", 0, FALSE, FALSE)
         /\ UNCHANGED <<useSqlite, cors, bulk, table, nextId, inflight, created, deletedOk>>
    ELSE \E err \in DbOutcomes :
           IF err # ""
           THEN /\ resp' = MkResp("post", 0, body, NoQuery, CatchResponse(err), err, 1,
                                  FALSE, FALSE)
                /\ UNCHANGED <<useSqlite, cors, bulk, table, nextId, inflight, created, deletedOk>>
           ELSE /\ nextId <= MaxId
                /\ table' = SqlInsert(useSqlite, table, nextId, Params(body))
                /\ nextId' = nextId + 1
                /\ deletedOk' = deletedOk \ {nextId}
                /\ IF useSqlite
                   THEN /\ HasFreeSlot
                        /\ inflight' = [NoteInsert(inflight, nextId) EXCEPT ![FreeSlot] =
                                           MkReq("post", "select", nextId, body, TRUE, FALSE)]
                        /\ resp' = NoResp
                        /\ created' = created
                   ELSE /\ inflight' = NoteInsert(inflight, nextId)
                        /\ resp' = MkResp("post", nextId, body, NoQuery,
                                          CreatedResponse(SqlSelectById(table', nextId)),
                                          "", 0, TRUE, FALSE)
                        /\ created' = [created EXCEPT ![nextId] =
                                           [body |-> body, row |-> RowOut(table', nextId)]]
                /\ UNCHANGED <<useSqlite, cors, bulk>>

\* SQLite: SELECT * FROM transactions WHERE id = lastID, then the 201.
PostSelect(k) ==
    /\ inflight[k].kind = "post"
    /\ inflight' = [inflight EXCEPT ![k] = Idle]
    /\ \E err \in DbOutcomes :
          IF err # ""
          THEN /\ resp' = MkResp("post", inflight[k].id, inflight[k].body, NoQuery,
                                 CatchResponse(err), err, 2, TRUE, FALSE)
               /\ created' = created
          ELSE /\ resp' = MkResp("post", inflight[k].id, inflight[k].body, NoQuery,
                                 CreatedResponse(SqlSelectById(table, inflight[k].id)),
                                 "", 0, TRUE, FALSE)
               /\ created' = IF inflight[k].id \in DOMAIN table
                             THEN [created EXCEPT ![inflight[k].id] =
                                      [body |-> inflight[k].body,
                                       row |-> RowOut(table, inflight[k].id)]]
                             ELSE created
    /\ UNCHANGED <<useSqlite, cors, bulk, table, nextId, deletedOk>>


\* ------------------------------------------- PUT /api/transactions/:id
\* Validation, then the UPDATE.  PostgreSQL answers from RETURNING *; on
\* SQLite the handler awaits db.run and goes on to a second query.
Put(id, body) ==
    IF ValidationError(body) # ""
    THEN /\ resp' = MkResp("put", id, body, NoQuery,
                           ValidationResponse(ValidationError(body)), "", 0, FALSE,
                           id \notin DOMAIN table)
         /\ UNCHANGED <<useSqlite, cors, bulk, table, nextId, inflight, created, deletedOk>>
    ELSE \E err \in DbOutcomes :
           IF err # ""
           THEN /\ resp' = MkResp("put", id, body, NoQuery, CatchResponse(err), err, 1,
                                  FALSE, id \notin DOMAIN table)
                /\ UNCHANGED <<useSqlite, cors, bulk, table, nextId, inflight, created, deletedOk>>
           ELSE /\ table' = SqlUpdate(useSqlite, table, id, Params(body))
                /\ created' = IF id \in DOMAIN table THEN [created EXCEPT ![id] = NoCreated]
                              ELSE created
                /\ IF useSqlite
                   THEN /\ HasFreeSlot
                        /\ inflight' = [inflight EXCEPT ![FreeSlot] =
                                           MkReq("put", "select", id, body,
                                                 table' # table, id \notin DOMAIN table)]
                        /\ resp' = NoResp
                   ELSE /\ inflight' = inflight
                        /\ resp' = MkResp("put", id, body, NoQuery,
                                          UpdatedResponse(SqlSelectById(table', id)),
                                          "", 0, table' # table, id \notin DOMAIN table)
                /\ UNCHANGED <<useSqlite, cors, bulk, nextId, deletedOk>>

\* SQLite: SELECT * FROM transactions WHERE id = ?, then 404 or the row.
PutSelect(k) ==
    /\ inflight[k].kind = "put"
    /\ inflight' = [inflight EXCEPT ![k] = Idle]
    /\ \E err \in DbOutcomes :
          resp' = MkResp("put", inflight[k].id, inflight[k].body, NoQuery,
                         IF err # "" THEN CatchResponse(err)
                         ELSE UpdatedResponse(SqlSelectById(table, inflight[k].id)),
                         err, IF err # "" THEN 2 ELSE 0,
                         inflight[k].changed, inflight[k].absent)
    /\ UNCHANGED <<useSqlite, cors, bulk, table, nextId, created, deletedOk>>

\* ---------------------------------------- DELETE /api/transactions/:id
\* The existence check: 404 when the SELECT finds no row, otherwise the
\* handler goes on to the DELETE statement.
Delete(id) ==
    \E err \in DbOutcomes :
        IF err # "" \/ SqlSelectById(table, id) = <<>>
        THEN /\ resp' = MkResp("delete", id, NoBody, NoQuery,
                               IF err # "" THEN CatchResponse(err) ELSE NotFoundResponse,
                               err, IF err # "" THEN 1 ELSE 0, FALSE, id \notin DOMAIN table)
             /\ UNCHANGED <<useSqlite, cors, bulk, table, nextId, inflight, created, deletedOk>>
        ELSE /\ HasFreeSlot
             /\ inflight' = [inflight EXCEPT ![FreeSlot] =
                                MkReq("delete", "delete", id, NoBody, FALSE, FALSE)]
             /\ resp' = NoResp
             /\ UNCHANGED <<useSqlite, cors, bulk, table, nextId, created, deletedOk>>

\* DELETE FROM transactions WHERE id = ?, then the success response.
DeleteRun(k) ==
    /\ inflight[k].kind = "delete"
    /\ inflight' = [inflight EXCEPT ![k] = Idle]
    /\ \E err \in DbOutcomes :
          IF err # ""
          THEN /\ resp' = MkResp("delete", inflight[k].id, NoBody, NoQuery,
                                 CatchResponse(err), err, 2, FALSE, FALSE)
               /\ UNCHANGED <<table, created, deletedOk>>
          ELSE /\ table' = SqlDelete(table, inflight[k].id)
               /\ resp' = MkResp("delete", inflight[k].id, NoBody, NoQuery,
                                 DeletedResponse(inflight[k].id), "", 0,
                                 table' # table, FALSE)
               /\ created' = [created EXCEPT ![inflight[k].id] = NoCreated]
               /\ deletedOk' = deletedOk \cup {inflight[k].id}
    /\ UNCHANGED <<useSqlite, cors, bulk, nextId>>

\* ------------------------------------------------------ GET /api/health
Health ==
    /\ resp' = MkResp("health", 0, NoBody, NoQuery, HealthResponse(useSqlite), "", 0,
                      FALSE, FALSE)
    /\ UNCHANGED <<useSqlite, cors, bulk, table, nextId, inflight, created, deletedOk>>


\* ------------------------------------------------------ aggregate queries
RECURSIVE SumAmount(_, _)
SumAmount(T, S) ==
    IF S = {} THEN 0
    ELSE LET i == CHOOSE x \in S : TRUE IN T[i].amount.n + SumAmount(T, S \ {i})

MinAmount(T, S) == CHOOSE m \in {T[i].amount.n : i \in S} : \A i \in S : m <= T[i].amount.n
MaxAmount(T, S) == CHOOSE m \in {T[i].amount.n : i \in S} : \A i \in S : m >= T[i].amount.n

\* AVG(amount), to the model's thousandths.
AvgAmount(T, S) == SumAmount(T, S) \div Cardinality(S)

\* The ORDER BY clauses of the aggregate queries: a may come before b.
TotalDesc(a, b) == a.total_amount.n >= b.total_amount.n
MonthDescTotalDesc(a, b) ==
    \/ a.month # b.month /\ TextLeq(b.month, a.month)
    \/ a.month = b.month /\ TotalDesc(a, b)
MonthAsc(a, b) == TextLeq(a.month, b.month)
TextDesc(a, b) == TextLeq(b, a)
OrderBy(clause, a, b) ==
    CASE clause = "total_amount DESC" -> TotalDesc(a, b)
      [] clause = "month DESC, total_amount DESC" -> MonthDescTotalDesc(a, b)
      [] clause = "month ASC" -> MonthAsc(a, b)
      [] clause = "month DESC" -> TextDesc(a, b)
      [] OTHER -> TextLeq(a, b)

\* Every order of the members of S that the ORDER BY clause allows.
SortedBy(S, clause) ==
    {p \in Orderings(S) :
        \A i, j \in 1..Cardinality(S) : i < j => OrderBy(clause, p[i], p[j])}

\* strftime('%Y-%m', date) and TO_CHAR(date, 'YYYY-MM'): the text YYYY-MM.
MonthText(cs) == IsoMonth(DigitsValue(cs, 1, 4), DigitsValue(cs, 6, 2))

\* DATE_TRUNC('month', date): midnight of the first day of the month, a
\* timestamp.
TruncMonth(cs) ==
    IsoDate(DigitsValue(cs, 1, 4), DigitsValue(cs, 6, 2), 1)
        \o <<"T", "0", "0", ":", "0", "0", ":", "0", "0">>

\* The month column of the monthly summary and of the trends.
MonthColumn(sqlite, cs) == IF sqlite THEN MonthText(cs) ELSE TruncMonth(cs)

\* GROUP BY budget_type ORDER BY total_amount DESC (summary/budget-types).
BudgetSummaryRows(T) ==
    SortedBy({ LET S == {i \in DOMAIN T : T[i].budget_type = c}
               IN  [budget_type |-> c, transaction_count |-> Cardinality(S),
                    total_amount |-> JsNum(SumAmount(T, S)),
                    avg_amount |-> JsNum(AvgAmount(T, S)),
                    min_amount |-> JsNum(MinAmount(T, S)),
                    max_amount |-> JsNum(MaxAmount(T, S))] :
               c \in {T[i].budget_type : i \in DOMAIN T} }, "total_amount DESC")

\* GROUP BY month, budget_type ORDER BY month DESC, total_amount DESC.
MonthlySummaryRows(sqlite, T) ==
    SortedBy({ LET S == {i \in DOMAIN T : /\ MonthColumn(sqlite, T[i].date.s) = g[1]
                                          /\ T[i].budget_type = g[2]}
               IN  [month |-> g[1], budget_type |-> g[2],
                    transaction_count |-> Cardinality(S),
                    total_amount |-> JsNum(SumAmount(T, S)),
                    avg_amount |-> JsNum(AvgAmount(T, S))] :
               g \in {<<MonthColumn(sqlite, T[i].date.s), T[i].budget_type>> : i \in DOMAIN T} },
             "month DESC, total_amount DESC")

\* Mutant: the breakdown counts the rows of every month in each category.
CategoryBreakdownAllMonths(T, month) ==
    SortedBy({ LET S == {i \in DOMAIN T : T[i].budget_type = c}
               IN  [budget_type |-> c, transaction_count |-> Cardinality(S),
                    total_amount |-> JsNum(SumAmount(T, S))] :
               c \in {T[i].budget_type : i \in {j \in DOMAIN T : MonthText(T[j].date.s) = month.s}} },
             "total_amount DESC")

\* WHERE month = ? GROUP BY budget_type ORDER BY total_amount DESC.
CategoryBreakdownRows(T, month) ==
    SortedBy({ LET S == {i \in DOMAIN T : /\ MonthText(T[i].date.s) = month.s
                                          /\ T[i].budget_type = c}
               IN  [budget_type |-> c, transaction_count |-> Cardinality(S),
                    total_amount |-> JsNum(SumAmount(T, S))] :
               c \in {T[i].budget_type : i \in {j \in DOMAIN T : MonthText(T[j].date.s) = month.s}} },
             "total_amount DESC")

\* GROUP BY month ORDER BY month ASC.
TrendRows(sqlite, T) ==
    SortedBy({ LET S == {i \in DOMAIN T : MonthColumn(sqlite, T[i].date.s) = m}
               IN  [month |-> m, total_spending |-> JsNum(SumAmount(T, S)),
                    transaction_count |-> Cardinality(S),
                    avg_transaction |-> JsNum(AvgAmount(T, S))] :
               m \in {MonthColumn(sqlite, T[i].date.s) : i \in DOMAIN T} }, "month ASC")

\* The one row of the overview: the aggregates of an empty table are NULL.
OverviewRow(sqlite, T) ==
    LET S == DOMAIN T
        first == CHOOSE i \in S : \A j \in S : DateLeq(sqlite, T[i].date.s, T[j].date.s)
        last == CHOOSE i \in S : \A j \in S : DateLeq(sqlite, T[j].date.s, T[i].date.s)
    IN  [total_transactions |-> Cardinality(S),
         total_amount |-> IF S = {} THEN JsNull ELSE JsNum(SumAmount(T, S)),
         avg_amount |-> IF S = {} THEN JsNull ELSE JsNum(AvgAmount(T, S)),
         first_transaction |-> IF S = {} THEN JsNull ELSE T[first].date,
         last_transaction |-> IF S = {} THEN JsNull ELSE T[last].date,
         budget_types_count |-> Cardinality({T[i].budget_type : i \in S})]

\* SELECT DISTINCT month ... ORDER BY month DESC, then months.map(m => m.month).
AvailableMonths(T) == SortedBy({MonthText(T[i].date.s) : i \in DOMAIN T}, "month DESC")

\* SELECT DISTINCT budget_type ... ORDER BY budget_type, then the map.
BudgetTypes(T) == SortedBy({T[i].budget_type.s : i \in DOMAIN T}, "budget_type")

\* res.json({ success: true, data }) of the aggregate endpoints.
DataResponse(data) == <<Send(200, [success |-> TRUE, data |-> data])>>

MonthRequiredResponse ==
    <<Send(400, [success |-> FALSE,
                 error |-> "Month parameter is required (format: YYYY-MM)"])>>

\* One of the aggregate endpoints that take no parameter: its only query
\* rejects, or it answers with one of the results the query may give.
Aggregate(kind, results) ==
    /\ \E err \in DbOutcomes :
          IF err # ""
          THEN resp' = MkResp(kind, 0, NoBody, NoQuery, CatchResponse(err), err, 1, FALSE, FALSE)
          ELSE \E data \in results :
                  resp' = MkResp(kind, 0, NoBody, NoQuery, DataResponse(data), "", 0, FALSE, FALSE)
    /\ UNCHANGED <<useSqlite, cors, bulk, table, nextId, inflight, created, deletedOk>>

BudgetSummary == Aggregate("summary/budget-types", BudgetSummaryRows(table))
MonthlySummary == Aggregate("summary/monthly", MonthlySummaryRows(useSqlite, table))
Trends == Aggregate("analytics/trends", TrendRows(useSqlite, table))
Overview == Aggregate("stats/overview", {OverviewRow(useSqlite, table)})
Months == Aggregate("available-months", AvailableMonths(table))
Types == Aggregate("budget-types", BudgetTypes(table))

\* GET /api/analytics/category-breakdown?month=
CategoryBreakdown(q) ==
    /\ IF ~Truthy(q.month)
       THEN resp' = MkResp("analytics/category-breakdown", 0, NoBody, q,
                           MonthRequiredResponse, "", 0, FALSE, FALSE)
       ELSE \E err \in DbOutcomes :
              IF err # ""
              THEN resp' = MkResp("analytics/category-breakdown", 0, NoBody, q,
                                  CatchResponse(err), err, 1, FALSE, FALSE)
              ELSE \E data \in CategoryBreakdownRows(table, q.month) :
                      resp' = MkResp("analytics/category-breakdown", 0, NoBody, q,
                                     DataResponse(data), "", 0, FALSE, FALSE)
    /\ UNCHANGED <<useSqlite, cors, bulk, table, nextId, inflight, created, deletedOk>>


\* ------------------------------------------------------------ the API alone
\* The query strings the model sends to the list endpoint.
ListQueries ==
    { NoQuery,
      MkQuery(CatA, JsUndefined, JsUndefined, JsUndefined, JsUndefined, JsUndefined),
      MkQuery(JsStr(<<>>), JsUndefined, JsUndefined, JsUndefined, JsUndefined, JsUndefined),
      MkQuery(JsUndefined, Day2, JsUndefined, JsUndefined, JsUndefined, JsUndefined),
      MkQuery(JsUndefined, JsUndefined, Day2, JsUndefined, JsUndefined, JsUndefined),
      MkQuery(JsUndefined, Day1, Day2, JsUndefined, JsUndefined, JsUndefined),
      MkQuery(CatA, Day2, Day2, JsUndefined, JsUndefined, JsUndefined),
      MkQuery(JsUndefined, JsUndefined, JsUndefined, JsStr(<<"1">>), JsUndefined, JsUndefined),
      MkQuery(JsUndefined, JsUndefined, JsUndefined, JsStr(<<"1">>), JsStr(<<"1">>), JsUndefined) }

\* The query strings the model sends to the category breakdown.
MonthQueries ==
    { NoQuery,
      MkQuery(JsUndefined, JsUndefined, JsUndefined, JsUndefined, JsUndefined,
              JsStr(IsoMonth(2025, 1))),
      MkQuery(JsUndefined, JsUndefined, JsUndefined, JsUndefined, JsUndefined,
              JsStr(IsoMonth(2025, 2))) }

\* useState(null) of showDeleteConfirm.
NoConfirm == NoRow

\* The component when it mounts: the useState initial values, and the
\* fetchAllData of the mount effect with its transactions request under way.
\* asked and last are history: the ids handed to handleDelete, and the last
\* handler that ran with the value of showDeleteConfirm it saw and the
\* requests it sent.
\* new Date().toISOString().split('T')[0]: the day the component runs.
Today == Day1
\* The initial value of formData, and what the form is reset to.
DefaultForm == MkBody(Today, JsStr(<<>>), JsStr(<<>>), JsStr(<<>>), JsStr(<<>>), JsBool(FALSE))
NoMessage == [type |-> "", text |-> ""]
NoEdit == NoRow
\* alert is the text of the alert() on the screen, "" when there is none.

\* monthRequest is history: the month fetchMonthlyTransactions was last
\* called with and the date range it requested.  fetchingMonths counts the
\* available-months requests of fetchAllData not yet answered.
NoMonthRequest == [month |-> <<>>, start_date |-> <<>>, end_date |-> <<>>]

\* useState({budget_type: '', start_date: '', end_date: '', limit: 50,
\* payedOff: 'all'}), which is also what resetFilters sets.
ClearedFilters ==
    [budget_type |-> JsStr(<<>>), start_date |-> JsStr(<<>>), end_date |-> JsStr(<<>>),
     limit |-> JsNum(50000), payedOff |-> "all"]
\* No setTimeout of resetFilters is pending; no fetchTransactions is past
\* its first await.
NoTimer == [pending |-> FALSE, filters |-> ClearedFilters]
NoFetch == [sent |-> FALSE, filters |-> ClearedFilters, afterReset |-> FALSE]

InitUi ==
    [transactions |-> <<>>, showDeleteConfirm |-> NoConfirm, outbox |-> <<>>,
     fetching |-> 1, asked |-> {},
     last |-> [handler |-> "useEffect", held |-> NoConfirm, sends |-> <<>>],
     monthlyTransactions |-> <<>>, sortConfig |-> [key |-> "date", direction |-> "desc"],
     sortedTransactions |-> <<>>, unpaidTransactions |-> <<>>,
     monthRequest |-> NoMonthRequest,
     availableMonths |-> <<>>, selectedMonth |-> <<>>, fetchingMonths |-> 1,
     formData |-> DefaultForm, formMessage |-> NoMessage, editingTransaction |-> NoEdit,
     alert |-> "", activeTab |-> "chart",
     filters |-> ClearedFilters, timer |-> NoTimer, filterRequests |-> <<>>,
     applying |-> NoFetch, resetPending |-> FALSE]

InitHistory ==
    /\ base = [table |-> EmptyTable, nextId |-> 1]
    /\ log = <<>>

Init ==
    /\ InitServer
    /\ InitHistory
    /\ ui = InitUi

\* A step of the server on a request any client may send.  The response of a
\* step is read (Receive) before the server takes its next step.  Under Spec
\* the handlers that await twice do not overlap one another (one-statement
\* handlers run between their two statements); SpecConc lifts that.
Api(A) ==
    /\ resp = NoResp
    /\ A
    /\ \A k \in Slots : k > 1 => inflight'[k] = Idle
    /\ UNCHANGED <<base, log, ui>>

\* The client reads the response.
Receive ==
    /\ resp # NoResp
    /\ resp' = NoResp
    /\ UNCHANGED <<useSqlite, cors, bulk, table, nextId, inflight, created, deletedOk, base, log, ui>>

Next ==
    \/ \E q \in ListQueries : Api(List(q))
    \/ \E id \in Ids : Api(GetById(id))
    \/ \E body \in Bodies : Api(Post(body))
    \/ \E k \in Slots : Api(PostSelect(k))
    \/ \E id \in Ids, body \in Bodies : Api(Put(id, body))
    \/ \E k \in Slots : Api(PutSelect(k))
    \/ \E id \in Ids : Api(Delete(id))
    \/ \E k \in Slots : Api(DeleteRun(k))
    \/ Api(BudgetSummary)
    \/ Api(MonthlySummary)
    \/ \E q \in MonthQueries : Api(CategoryBreakdown(q))
    \/ Api(Trends)
    \/ Api(Overview)
    \/ Api(Months)
    \/ Api(Types)
    \/ Api(Health)
    \/ Receive

Spec == Init /\ [][Next]_vars


\* ------------------------------------------------- overlapping handlers
\* The bodies the overlapping requests carry.
ConcBodies == {BodyNumber, BodyNumericString}

Quiescent == \A k \in Slots : inflight[k] = Idle
Suspended(fl) == Cardinality({k \in Slots : fl[k] # Idle})

\* A step of the server with handlers overlapping.  A batch runs from one
\* moment at which no handler is suspended to the next: base is the database
\* at its start and log its answered requests, in the order of the answers.
Conc(A) ==
    /\ resp = NoResp
    /\ A
    /\ base' = IF Quiescent THEN [table |-> table, nextId |-> nextId] ELSE base
    /\ log' = LET l == IF Quiescent THEN <<>> ELSE log
              IN  IF resp' # NoResp THEN Append(l, resp') ELSE l
    /\ Len(log') + Suspended(inflight') <= MaxBatch
    /\ UNCHANGED ui

ReceiveConc ==
    /\ resp # NoResp
    /\ resp' = NoResp
    /\ UNCHANGED <<useSqlite, cors, bulk, table, nextId, inflight, created, deletedOk, base, log, ui>>

NextConc ==
    \/ \E id \in Ids : Conc(GetById(id))
    \/ \E body \in ConcBodies : Conc(Post(body))
    \/ \E k \in Slots : Conc(PostSelect(k))
    \/ \E id \in Ids, body \in ConcBodies : Conc(Put(id, body))
    \/ \E k \in Slots : Conc(PutSelect(k))
    \/ \E id \in Ids : Conc(Delete(id))
    \/ \E k \in Slots : Conc(DeleteRun(k))
    \/ ReceiveConc

SpecConc == Init /\ [][NextConc]_vars

\* The same requests run one after the other: what request r answers on
\* database d, and the database it leaves.
SerialStep(sqlite, d, r) ==
    CASE r.kind = "get" ->
            [table |-> d.table, nextId |-> d.nextId,
             sends |-> FetchedResponse(SqlSelectById(d.table, r.id))]
      [] r.kind = "post" ->
            IF ValidationError(r.body) # ""
            THEN [table |-> d.table, nextId |-> d.nextId,
                  sends |-> ValidationResponse(ValidationError(r.body))]
            ELSE LET T == SqlInsert(sqlite, d.table, d.nextId, Params(r.body))
                 IN  [table |-> T, nextId |-> d.nextId + 1,
                      sends |-> CreatedResponse(SqlSelectById(T, d.nextId))]
      [] r.kind = "put" ->
            IF ValidationError(r.body) # ""
            THEN [table |-> d.table, nextId |-> d.nextId,
                  sends |-> ValidationResponse(ValidationError(r.body))]
            ELSE LET T == SqlUpdate(sqlite, d.table, r.id, Params(r.body))
                 IN  [table |-> T, nextId |-> d.nextId,
                      sends |-> UpdatedResponse(SqlSelectById(T, r.id))]
      [] OTHER ->
            IF SqlSelectById(d.table, r.id) = <<>>
            THEN [table |-> d.table, nextId |-> d.nextId, sends |-> NotFoundResponse]
            ELSE [table |-> SqlDelete(d.table, r.id), nextId |-> d.nextId,
                  sends |-> DeletedResponse(r.id)]

\* Running the requests of l in the order p from database d gives each the
\* response l records for it and ends in the database final.
RECURSIVE SerialRun(_, _, _, _, _, _)
SerialRun(sqlite, d, l, p, n, final) ==
    IF n > Len(p) THEN d.table = final.table /\ d.nextId = final.nextId
    ELSE LET out == SerialStep(sqlite, d, l[p[n]])
         IN  /\ out.sends = l[p[n]].sends
             /\ SerialRun(sqlite, [table |-> out.table, nextId |-> out.nextId], l, p, n + 1, final)

\* --------------------------------------------------------------- paging
\* The rows the paged lists run over: two of them share a date.
PageBodies == {BodyNumber, BodyNumericString, BodyNegative}

PageQuery(limit, offset) ==
    MkQuery(JsUndefined, JsUndefined, JsUndefined, limit, offset, JsUndefined)

\* limit and offset absent, zero, within and beyond the table, negative, and
\* not a number; one query that also filters.
PageQueries ==
    { PageQuery(l, o) :
        l \in {JsUndefined, JsStr(<<"0">>), JsStr(<<"1">>), JsStr(<<"2">>), JsStr(<<"-", "1">>),
               JsStr(<<"x">>)},
        o \in {JsUndefined, JsStr(<<"0">>), JsStr(<<"1">>), JsStr(<<"3">>), JsStr(<<"-", "1">>)} }
    \cup {MkQuery(CatA, JsUndefined, JsUndefined, JsStr(<<"1">>), JsStr(<<"1">>), JsUndefined)}

NextPage ==
    \/ \E body \in PageBodies : Api(Post(body))
    \/ \E k \in Slots : Api(PostSelect(k))
    \/ \E q \in PageQueries : Api(List(q))
    \/ Receive

SpecPage == Init /\ [][NextPage]_vars

\* ------------------------------------------------------------ the frontend
\* The query of fetchTransactions under the initial filters.
UiQuery ==
    MkQuery(JsUndefined, JsUndefined, JsUndefined, JsStr(<<"5", "0">>), JsUndefined,
            JsUndefined)

DeleteRequest(id) == [method |-> "DELETE", id |-> id]

\* Mutant: confirmDelete without its guard.
ConfirmDeleteUnguarded(held) == <<DeleteRequest(held.id)>>

\* The requests confirmDelete sends before it awaits.
ConfirmDeleteRequests(held) ==
    IF held = NoConfirm THEN <<>> ELSE <<DeleteRequest(held.id)>>

Remove(q, n) == [k \in 1..(Len(q) - 1) |-> IF k < n THEN q[k] ELSE q[k + 1]]

\* A handler of the component ran: what it saw and what it sent.
Ran(handler, u) ==
    [u EXCEPT !.last = [handler |-> handler, held |-> ui.showDeleteConfirm,
                        sends |-> SubSeq(u.outbox, Len(ui.outbox) + 1, Len(u.outbox))]]

\* The delete button of a row of the transactions table.
handleDelete(t) ==
    /\ ui' = Ran("handleDelete",
                 [ui EXCEPT !.showDeleteConfirm = t, !.asked = @ \cup {t.id}])
    /\ UNCHANGED <<server, base, log>>

\* 'Yes, Delete', up to the await of the fetch.
confirmDelete ==
    /\ Len(ui.outbox) < MaxOutbox
    /\ ui' = Ran("confirmDelete",
                 [ui EXCEPT !.outbox = @ \o ConfirmDeleteRequests(ui.showDeleteConfirm)])
    /\ UNCHANGED <<server, base, log>>

\* 'Cancel', or a click on the overlay.
cancelDelete ==
    /\ ui' = Ran("cancelDelete", [ui EXCEPT !.showDeleteConfirm = NoConfirm])
    /\ UNCHANGED <<server, base, log>>

\* The fetch of confirmDelete rejects: the catch block alerts.
DeleteLost(n) ==
    /\ n \in DOMAIN ui.outbox
    /\ ui' = [ui EXCEPT !.outbox = Remove(@, n)]
    /\ UNCHANGED <<server, base, log>>

\* A request of the frontend reaches the server.
ServeDelete(n) ==
    /\ resp = NoResp
    /\ n \in DOMAIN ui.outbox
    /\ Delete(ui.outbox[n].id)
    /\ ui' = [ui EXCEPT !.outbox = Remove(@, n)]
    /\ UNCHANGED <<base, log>>

ServeList ==
    /\ resp = NoResp
    /\ ui.fetching > 0
    /\ List(UiQuery)
    /\ UNCHANGED <<base, log, ui>>

\* confirmDelete after its await.
DeleteAnswered ==
    /\ resp.kind = "delete"
    /\ resp.sends[1].json.success => ui.fetching < MaxFetching
    /\ resp' = NoResp
    /\ ui' = IF resp.sends[1].json.success
             THEN [ui EXCEPT !.showDeleteConfirm = NoConfirm, !.fetching = @ + 1]
             ELSE ui
    /\ UNCHANGED <<useSqlite, cors, bulk, table, nextId, inflight, created, deletedOk, base, log>>

\* fetchTransactions after its await (payedOff is 'all': no client filter).
ListAnswered ==
    /\ resp.kind = "list"
    /\ resp' = NoResp
    /\ ui' = IF resp.sends[1].json.success
             THEN [ui EXCEPT !.transactions = resp.sends[1].json.data, !.fetching = @ - 1]
             ELSE [ui EXCEPT !.fetching = @ - 1]
    /\ UNCHANGED <<useSqlite, cors, bulk, table, nextId, inflight, created, deletedOk, base, log>>

\* The response to a request of another client.
OtherAnswered ==
    /\ resp.kind \notin {"none", "delete", "list"}
    /\ resp' = NoResp
    /\ UNCHANGED <<useSqlite, cors, bulk, table, nextId, inflight, created, deletedOk, base, log, ui>>

\* The bodies of the transactions the component comes to display.
UiBodies == {BodyNumber}

\* A step of the server that leaves the component alone.
Backend(A) == resp = NoResp /\ A /\ UNCHANGED <<base, log, ui>>

NextUi ==
    \/ \E n \in 1..Len(ui.transactions) : handleDelete(ui.transactions[n])
    \/ confirmDelete
    \/ cancelDelete
    \/ \E n \in 1..MaxOutbox : DeleteLost(n)
    \/ \E n \in 1..MaxOutbox : ServeDelete(n)
    \/ \E k \in Slots : Backend(DeleteRun(k))
    \/ ServeList
    \/ \E body \in UiBodies : Backend(Post(body))
    \/ \E k \in Slots : Backend(PostSelect(k))
    \/ DeleteAnswered
    \/ ListAnswered
    \/ OtherAnswered

SpecUi == Init /\ [][NextUi]_vars

\* --------------------------------------------------- client-side sorting
\* ToNumber, as the relational operators apply it to an operand.
ToNumber(v) ==
    CASE v.t = "number" -> v
      [] v.t = "boolean" -> JsNum(1000 * v.n)
      [] v.t = "null" -> JsNum(0)
      [] v.t = "string" ->
            IF v.s = <<>> THEN JsNum(0)
            ELSE IF NumericPrefixLen(v.s) = Len(v.s) THEN ParseFloatStr(v.s)
            ELSE JsNaN
      [] OTHER -> JsNaN

\* a < b: two strings compare as texts, any other pair as numbers, and a
\* comparison with NaN is false.
JsLess(a, b) ==
    IF a.t = "string" /\ b.t = "string" THEN TextLeq(a.s, b.s) /\ a.s # b.s
    ELSE /\ ToNumber(a).t = "number" /\ ToNumber(b).t = "number"
         /\ ToNumber(a).n < ToNumber(b).n

\* The comparator sortedTransactions hands to sort.
SortCompare(a, b, cfg) ==
    IF JsLess(a[cfg.key], b[cfg.key]) THEN (IF cfg.direction = "asc" THEN 0 - 1 ELSE 1)
    ELSE IF JsLess(b[cfg.key], a[cfg.key]) THEN (IF cfg.direction = "asc" THEN 1 ELSE 0 - 1)
    ELSE 0

\* The comparator is consistent on the items (ECMAScript, Array.prototype.sort).
ConsistentComparator(items, cfg) ==
    LET S == {items[k] : k \in DOMAIN items}
    IN  \A a, b, c \in S :
            /\ SortCompare(a, a, cfg) = 0
            /\ (SortCompare(a, b, cfg) = 0 /\ SortCompare(b, c, cfg) = 0)
                  => SortCompare(a, c, cfg) = 0
            /\ (SortCompare(a, b, cfg) < 0 /\ SortCompare(b, c, cfg) < 0)
                  => SortCompare(a, c, cfg) < 0
            /\ (SortCompare(a, b, cfg) > 0 /\ SortCompare(b, c, cfg) > 0)
                  => SortCompare(a, c, cfg) > 0
            /\ SortCompare(a, b, cfg) < 0 <=> SortCompare(b, a, cfg) > 0

\* [...items].sort(comparator): the stable sorted order when the comparator
\* is consistent on the items, an order the engine chooses when it is not.
ArraySort(items, cfg) ==
    LET perms == Orderings(DOMAIN items)
        stable == {p \in perms :
                      \A i, j \in DOMAIN items : i < j =>
                          \/ SortCompare(items[p[i]], items[p[j]], cfg) < 0
                          \/ /\ SortCompare(items[p[i]], items[p[j]], cfg) = 0
                             /\ p[i] < p[j]}
    IN  {[k \in DOMAIN items |-> items[p[k]]] :
            p \in IF ConsistentComparator(items, cfg) THEN stable ELSE perms}

\* The useMemo of sortedTransactions.
SortedTransactions(items, cfg) ==
    IF cfg.key # "" THEN ArraySort(items, cfg) ELSE {items}

\* The rows the sorted lists are made of, as the list route returns them:
\* one was created without a name.
SortRow(id, date, name, amount, payedOff) ==
    [id |-> id, date |-> date, name |-> name, description |-> JsNull, budget_type |-> CatA,
     amount |-> JsNum(amount), payedOff |-> JsBool(payedOff), created_at |-> InsertedAt(id)]
SortRows ==
    { SortRow(1, Day1, JsStr(<<"b">>), 12500, FALSE),
      SortRow(2, Day2, JsNull, 7005, TRUE),
      SortRow(3, Day3, JsStr(<<"a">>), 3000, FALSE) }
SortLists ==
    UNION { {l \in [1..n -> SortRows] : \A i, j \in 1..n : i # j => l[i] # l[j]} :
              n \in 0..(IF MaxSortLen < 3 THEN MaxSortLen ELSE 3) }

\* The columns whose header calls handleSort.
SortKeys == {"date", "name", "description", "budget_type", "amount", "payedOff"}

\* fetchMonthlyTransactions after its await: setMonthlyTransactions(data.data),
\* and the memo recomputed.
SetMonthlyTransactions(items) ==
    /\ \E sorted \in SortedTransactions(items, ui.sortConfig) :
          ui' = [ui EXCEPT !.monthlyTransactions = items, !.sortedTransactions = sorted]
    /\ UNCHANGED <<server, base, log>>

\* A click on a column header, and the memo recomputed.
handleSort(key) ==
    LET direction == IF ui.sortConfig.key = key /\ ui.sortConfig.direction = "asc"
                     THEN "desc" ELSE "asc"
        cfg == [key |-> key, direction |-> direction]
    IN  /\ \E sorted \in SortedTransactions(ui.monthlyTransactions, cfg) :
              ui' = [ui EXCEPT !.sortConfig = cfg, !.sortedTransactions = sorted]
        /\ UNCHANGED <<server, base, log>>

NextSort ==
    \/ \E items \in SortLists : SetMonthlyTransactions(items)
    \/ \E key \in SortKeys : handleSort(key)

SpecSort == Init /\ [][NextSort]_vars

\* ----------------------------------------------------------- the Unpaid tab
\* The rows kept as a count: paid, and dated after every row of Bodies, so
\* ORDER BY date DESC puts them before the rows of table.
BulkDay == JsStr(IsoDate(2025, 3, 1))
BodyBulk == MkBody(BulkDay, JsUndefined, JsUndefined, CatA, JsNum(1000), JsBool(TRUE))
BulkRow == StoredRow(ColumnValues(FALSE, Params(BodyBulk)), InsertedAt(0))

\* The rows the Unpaid tab is checked over: one unpaid, one paid.
UnpaidBodies == {BodyNumber, BodyNumericPrefix}

\* fetch(`${API_URL}/transactions?limit=1000`)
UnpaidQuery == PageQuery(JsStr(<<"1", "0", "0", "0">>), JsUndefined)

\* POST /api/transactions with BodyBulk, both statements, answered 201 and
\* the answer read.
PostBulk ==
    /\ resp = NoResp
    /\ bulk < MaxBulk
    /\ bulk' = bulk + 1
    /\ UNCHANGED <<useSqlite, cors, table, nextId, inflight, resp, created, deletedOk, base, log, ui>>

\* GET /api/transactions?limit=1000 over the rows of bulk and of table: the
\* rows of bulk come first, the rows of table fill what the limit leaves.
\* The response carries the rows of bulk as their number.
ListUnpaid ==
    /\ resp = NoResp
    /\ \E err \in DbErrors \cup {LimitError(useSqlite, UnpaidQuery)} :
          IF err # ""
          THEN resp' = MkResp("list", 0, NoBody, UnpaidQuery, CatchResponse(err), err, 1,
                              FALSE, FALSE)
          ELSE LET lim == parseInt(UnpaidQuery.limit).n \div 1000
                   nb == IF bulk < lim THEN bulk ELSE lim
               IN  \E p \in DateDescOrders(useSqlite, table,
                                           ListMatches(useSqlite, table, UnpaidQuery)) :
                      LET ids == LimitOffset(p, lim - nb, 0)
                          rows == [k \in DOMAIN ids |-> RowOut(table, ids[k])]
                      IN  resp' = MkResp("list", 0, NoBody, UnpaidQuery,
                                         <<Send(200, [success |-> TRUE, data |-> rows,
                                                      bulk |-> nb, count |-> nb + Len(rows)])>>,
                                         "", 0, FALSE, FALSE)
    /\ UNCHANGED <<useSqlite, cors, bulk, table, nextId, inflight, created, deletedOk, base, log, ui>>

\* t.payedOff === false || t.payedOff === 0
IsUnpaid(t) == t.payedOff = JsBool(FALSE) \/ t.payedOff = JsNum(0)

\* data.data.filter(...) over the rows of a response.
UnpaidFilter(json) ==
    (IF IsUnpaid(BulkRow) THEN [k \in 1..json.bulk |-> BulkRow] ELSE <<>>)
        \o SelectSeq(json.data, IsUnpaid)

UnpaidAnswered == resp.kind = "list" /\ resp.query = UnpaidQuery

\* fetchUnpaidTransactions after its awaits.
fetchUnpaidTransactions ==
    /\ UnpaidAnswered
    /\ ui' = IF resp.sends[1].json.success
             THEN [ui EXCEPT !.unpaidTransactions = UnpaidFilter(resp.sends[1].json)]
             ELSE ui
    /\ resp' = NoResp
    /\ UNCHANGED <<useSqlite, cors, bulk, table, nextId, inflight, created, deletedOk, base, log>>

\* The answer to a POST is read.
ReceiveOther == ~UnpaidAnswered /\ Receive

NextUnpaid ==
    \/ \E body \in UnpaidBodies : Api(Post(body))
    \/ \E k \in Slots : Api(PostSelect(k))
    \/ PostBulk
    \/ ListUnpaid
    \/ fetchUnpaidTransactions
    \/ ReceiveOther

SpecUnpaid == Init /\ [][NextUnpaid]_vars

\* ------------------------------------------------------ the month's range
\* The number of days of month m (1..12) of year y in the proleptic
\* Gregorian calendar, which Date, strftime and DATE all use.
IsLeapYear(y) == y % 4 = 0 /\ (y % 100 # 0 \/ y % 400 = 0)
DaysInMonth(y, m) ==
    IF m = 2 THEN (IF IsLeapYear(y) THEN 29 ELSE 28)
    ELSE IF m \in {4, 6, 9, 11} THEN 30 ELSE 31

\* new Date(year, monthIndex, 0).getDate(): the Date constructor reads a year
\* of 0..99 as 1900 + year, a month index of 12 as January of the next year,
\* and day 0 as the day before the first of that month.
DateYear(year) == IF 0 <= year /\ year <= 99 THEN 1900 + year ELSE year
LastDayBefore(year, monthIndex) ==
    LET yy == DateYear(year) + (monthIndex \div 12)
        mi == monthIndex % 12
    IN  IF mi = 0 THEN DaysInMonth(yy - 1, 12) ELSE DaysInMonth(yy, mi)

\* The months of the month selector: the months of stored dates.  PostgreSQL's
\* DATE has no year 0000; the date column of SQLite is text.
MonthYears(sqlite) == {4, 1900, 2000, 2023, 2024, 2100} \cup (IF sqlite THEN {0} ELSE {})
SelectableMonths(sqlite) == {IsoMonth(y, m) : y \in MonthYears(sqlite), m \in 1..12}

\* The calendar days a row can be dated.
StoredDates(sqlite) ==
    UNION { {IsoDate(y, m, d) : d \in 1..DaysInMonth(y, m)} :
              y \in MonthYears(sqlite), m \in 1..12 }

\* fetchMonthlyTransactions(month) up to its fetch.
fetchMonthlyTransactions(month) ==
    /\ month # <<>>
    /\ LET startDate == month \o <<"-", "0", "1">>
           year == DigitsValue(month, 1, 4)
           monthNum == DigitsValue(month, 6, 2)
           lastDay == LastDayBefore(year, monthNum)
           endDate == month \o <<"-">> \o Pad2(lastDay)
       IN  ui' = [ui EXCEPT !.monthRequest =
                      [month |-> month, start_date |-> startDate, end_date |-> endDate]]
    /\ UNCHANGED <<server, base, log>>

NextMonth == \E month \in SelectableMonths(useSqlite) : fetchMonthlyTransactions(month)

SpecMonth == Init /\ [][NextMonth]_vars

\* ------------------------------------------------------ the month selector
\* The rows the month selector is checked over: one of January, one of
\* February.
MonthBodies == {BodyNumber, BodyNumericPrefix}

\* GET /api/available-months for a request of fetchAvailableMonths.
ServeMonths == ui.fetchingMonths > 0 /\ Backend(Months)

MonthsAnswered == resp.kind = "available-months"

\* fetchAvailableMonths after its awaits.
fetchAvailableMonths ==
    /\ MonthsAnswered
    /\ LET data == resp.sends[1].json
       IN  ui' = IF ~data.success THEN [ui EXCEPT !.fetchingMonths = @ - 1]
                 ELSE [ui EXCEPT !.fetchingMonths = @ - 1,
                                 !.availableMonths = data.data,
                                 !.selectedMonth = IF Len(data.data) > 0 THEN data.data[1]
                                                   ELSE @]
    /\ resp' = NoResp
    /\ UNCHANGED <<useSqlite, cors, bulk, table, nextId, inflight, created, deletedOk, base, log>>

\* handleFormSubmit and confirmDelete after their awaits: fetchAllData on
\* success.
Refetch ==
    /\ resp.kind \in {"post", "delete"}
    /\ resp.sends[Len(resp.sends)].json.success
    /\ ui.fetchingMonths < MaxFetching
    /\ ui' = [ui EXCEPT !.fetchingMonths = @ + 1]
    /\ resp' = NoResp
    /\ UNCHANGED <<useSqlite, cors, bulk, table, nextId, inflight, created, deletedOk, base, log>>

\* The response to a request that failed, or that another client sent.
ReceiveElse == ~MonthsAnswered /\ Receive

\* onChange of the month selector: one of its options is chosen.
selectMonth(k) ==
    /\ k \in DOMAIN ui.availableMonths
    /\ ui' = [ui EXCEPT !.selectedMonth = ui.availableMonths[k]]
    /\ UNCHANGED <<server, base, log>>

NextSelect ==
    \/ \E body \in MonthBodies : Backend(Post(body))
    \/ \E k \in Slots : Backend(PostSelect(k))
    \/ \E id \in Ids : Backend(Delete(id))
    \/ \E k \in Slots : Backend(DeleteRun(k))
    \/ ServeMonths
    \/ fetchAvailableMonths
    \/ Refetch
    \/ ReceiveElse
    \/ \E k \in 1..MaxId : selectMonth(k)

SpecSelect == Init /\ [][NextSelect]_vars

\* --------------------------------------------------------------------- CORS
LocalhostOrigin ==
    <<"h", "t", "t", "p", ":", "/", "/", "l", "o", "c", "a", "l", "h", "o", "s", "t", ":",
      "3", "0", "0", "0">>

\* The position of the first comma of cs, 0 when it has none.
RECURSIVE CommaAt(_, _)
CommaAt(cs, i) ==
    IF i > Len(cs) THEN 0 ELSE IF cs[i] = "," THEN i ELSE CommaAt(cs, i + 1)

\* String.prototype.split(',')
RECURSIVE split(_)
split(cs) ==
    LET i == CommaAt(cs, 1)
    IN  IF i = 0 THEN <<cs>>
        ELSE <<SubSeq(cs, 1, i - 1)>> \o split(SubSeq(cs, i + 1, Len(cs)))

\* String.prototype.trim
RECURSIVE trim(_)
trim(cs) ==
    IF cs = <<>> THEN cs
    ELSE IF cs[1] = " " THEN trim(Tail(cs))
    ELSE IF cs[Len(cs)] = " " THEN trim(SubSeq(cs, 1, Len(cs) - 1))
    ELSE cs

\* Mutant: the entries of CORS_ORIGINS are not trimmed.
allowedOriginsUntrimmed(env) ==
    IF Truthy(env) THEN split(env.s) ELSE <<LocalhostOrigin>>

\* const allowedOrigins = process.env.CORS_ORIGINS ? ... : ['http://localhost:3000']
allowedOrigins(env) ==
    IF Truthy(env)
    THEN [k \in DOMAIN split(env.s) |-> trim(split(env.s)[k])]
    ELSE <<LocalhostOrigin>>

\* The origin callback: the message of the error it passes on, "" when it
\* passes none.
CorsOrigin(allowed, origin) ==
    IF ~Truthy(origin) THEN ""
    ELSE IF \E k \in DOMAIN allowed : allowed[k] = origin.s THEN ""
    ELSE "Not allowed by CORS"

\* The strings over alphabet of length at most n.
StringsUpTo(alphabet, n) == UNION {[1..k -> alphabet] : k \in 0..n}

\* process.env.CORS_ORIGINS: unset, or a string.
EnvValues ==
    {JsUndefined, JsStr(LocalhostOrigin)}
        \cup {JsStr(cs) : cs \in StringsUpTo({"a", "b", ",", " "}, MaxEnvLen)}

\* req.headers.origin: no header, or its value.
OriginValues ==
    {JsUndefined, JsStr(LocalhostOrigin)}
        \cup {JsStr(cs) : cs \in StringsUpTo({"a", "b", " "}, MaxOriginLen)}

\* A request passes through the cors middleware of a process started with
\* CORS_ORIGINS = env.
CorsCheck(env, origin) ==
    /\ cors' = [checked |-> TRUE, env |-> env, origin |-> origin,
                allowedOrigins |-> allowedOrigins(env),
                error |-> CorsOrigin(allowedOrigins(env), origin)]
    /\ UNCHANGED <<useSqlite, bulk, table, nextId, inflight, resp, created, deletedOk, base,
                   log, ui>>

NextCors == \E env \in EnvValues, origin \in OriginValues : CorsCheck(env, origin)

SpecCors == Init /\ [][NextCors]_vars

\* ------------------------------------------------ the add and edit forms
\* Mutant: the check of the forms without `parseFloat(amount) <= 0`.
FormErrorAnySign(f) ==
    IF ~Truthy(f.date) \/ ~Truthy(f.budget_type) \/ ~Truthy(f.amount)
    THEN "Please fill in all required fields (Date, Category, Amount)"
    ELSE IF isNaN(parseFloat(f.amount))
    THEN "Please enter a valid amount greater than 0"
    ELSE ""

\* The two checks handleFormSubmit and handleUpdateTransaction begin with:
\* the message they show, "" when the form passes.
FormError(f) ==
    IF ~Truthy(f.date) \/ ~Truthy(f.budget_type) \/ ~Truthy(f.amount)
    THEN "Please fill in all required fields (Date, Category, Amount)"
    ELSE IF isNaN(parseFloat(f.amount)) \/ parseFloat(f.amount).n <= 0
    THEN "Please enter a valid amount greater than 0"
    ELSE ""

\* body: JSON.stringify({...}) of both handlers.
FormBody(f) ==
    MkBody(f.date, OrNull(f.name), OrNull(f.description), f.budget_type,
           parseFloat(f.amount), f.payedOff)

\* What the user can enter: a date input holds a day or nothing, the
\* category select one of its options or nothing, a number input a decimal
\* literal or nothing.
FormValues(name) ==
    CASE name = "date" -> {JsStr(<<>>), Day1}
      [] name = "budget_type" -> {JsStr(<<>>), CatA}
      [] OTHER -> {JsStr(<<>>), JsStr(<<"0">>), JsStr(<<"1", "2", ".", "5">>)}
FormFields == {"date", "budget_type", "amount"}
\* The fields changed in the edit form.
EditFields == {"date", "amount"}

SetField(f, name, value) ==
    CASE name = "date" -> [f EXCEPT !.date = value]
      [] name = "budget_type" -> [f EXCEPT !.budget_type = value]
      [] OTHER -> [f EXCEPT !.amount = value]

handleFormChange(name, value) ==
    /\ ui' = [ui EXCEPT !.formData = SetField(@, name, value), !.formMessage = NoMessage]
    /\ UNCHANGED <<server, base, log>>

\* The 'Clear Form' button.
clearForm ==
    /\ ui' = [ui EXCEPT !.formData = DefaultForm, !.formMessage = NoMessage]
    /\ UNCHANGED <<server, base, log>>

\* handleFormSubmit up to the await of its fetch.
handleFormSubmit ==
    LET f == ui.formData
        err == FormError(f)
        request == [method |-> "POST", id |-> 0, body |-> FormBody(f)]
    IN  /\ err = "" => Len(ui.outbox) < MaxFormRequests
        /\ ui' = IF err # ""
                 THEN [ui EXCEPT !.formMessage = [type |-> "error", text |-> err]]
                 ELSE [ui EXCEPT !.formMessage = NoMessage,
                                 !.outbox = Append(@, request)]
        /\ UNCHANGED <<server, base, log>>

\* transaction.date.split('T')[0]
RECURSIVE BeforeT(_)
BeforeT(cs) ==
    IF cs = <<>> \/ cs[1] = "T" THEN <<>> ELSE <<cs[1]>> \o BeforeT(Tail(cs))

\* The edit button of a row.
handleEdit(t) ==
    /\ ui' = [ui EXCEPT !.editingTransaction = [t EXCEPT !.date = JsStr(BeforeT(t.date.s))],
                       !.activeTab = "edit"]
    /\ UNCHANGED <<server, base, log>>

handleCancelEdit ==
    /\ ui' = [ui EXCEPT !.editingTransaction = NoEdit, !.activeTab = "transactions"]
    /\ UNCHANGED <<server, base, log>>

\* onChange of a field of the edit form, which is rendered while
\* editingTransaction is set.
handleEditChange(name, value) ==
    /\ ui.editingTransaction # NoEdit
    /\ ui' = [ui EXCEPT !.editingTransaction = SetField(@, name, value)]
    /\ UNCHANGED <<server, base, log>>

\* handleUpdateTransaction up to the await of its fetch.
handleUpdateTransaction ==
    LET f == ui.editingTransaction
        err == FormError(f)
        request == [method |-> "PUT", id |-> f.id, body |-> FormBody(f)]
    IN  /\ f # NoEdit
        /\ err = "" => Len(ui.outbox) < MaxFormRequests
        /\ ui' = IF err # ""
                 THEN [ui EXCEPT !.alert = err]
                 ELSE [ui EXCEPT !.outbox = Append(@, request)]
        /\ UNCHANGED <<server, base, log>>

\* A request of a form reaches the server.
ServeForm(n) ==
    /\ resp = NoResp
    /\ n \in DOMAIN ui.outbox
    /\ IF ui.outbox[n].method = "POST" THEN Post(ui.outbox[n].body)
       ELSE Put(ui.outbox[n].id, ui.outbox[n].body)
    /\ \A k \in Slots : k > 1 => inflight'[k] = Idle
    /\ ui' = [ui EXCEPT !.outbox = Remove(@, n)]
    /\ UNCHANGED <<base, log>>

\* The fetch of a form rejects: the catch block shows 'Network error'.
FormLost(n) ==
    /\ n \in DOMAIN ui.outbox
    /\ ui' = IF ui.outbox[n].method = "POST"
             THEN [ui EXCEPT !.outbox = Remove(@, n),
                             !.formMessage = [type |-> "error",
                                              text |-> "Network error. Please try again."]]
             ELSE [ui EXCEPT !.outbox = Remove(@, n),
                             !.alert = "Network error. Please try again."]
    /\ UNCHANGED <<server, base, log>>

FormSucceeded == resp.sends[Len(resp.sends)].json.success

\* handleFormSubmit after its awaits.
SubmitAnswered ==
    /\ resp.kind = "post"
    /\ FormSucceeded => ui.fetching < MaxFetching
    /\ resp' = NoResp
    /\ ui' = IF FormSucceeded
             THEN [ui EXCEPT !.formMessage = [type |-> "success",
                                              text |-> "Transaction added successfully!"],
                             !.formData = DefaultForm,
                             !.fetching = @ + 1]
             ELSE [ui EXCEPT !.formMessage =
                                 [type |-> "error",
                                  text |-> resp.sends[Len(resp.sends)].json.error]]
    /\ UNCHANGED <<useSqlite, cors, bulk, table, nextId, inflight, created, deletedOk, base, log>>

\* handleUpdateTransaction after its awaits.
UpdateAnswered ==
    /\ resp.kind = "put"
    /\ FormSucceeded => ui.fetching < MaxFetching
    /\ resp' = NoResp
    /\ ui' = IF FormSucceeded
             THEN [ui EXCEPT !.editingTransaction = NoEdit, !.activeTab = "transactions",
                             !.fetching = @ + 1,
                             !.alert = "Transaction updated successfully!"]
             ELSE [ui EXCEPT !.alert = resp.sends[Len(resp.sends)].json.error]
    /\ UNCHANGED <<useSqlite, cors, bulk, table, nextId, inflight, created, deletedOk, base, log>>

\* The user closes the alert.
dismissAlert ==
    /\ ui.alert # ""
    /\ ui' = [ui EXCEPT !.alert = ""]
    /\ UNCHANGED <<server, base, log>>

\* A step of the component: alert() blocks the page until it is closed.
Page(A) == ui.alert = "" /\ A

\* No request of the page is on its way and no response is waiting.
Settled ==
    /\ ui.outbox = <<>>
    /\ ui.fetching = 0
    /\ resp = NoResp
    /\ \A k \in Slots : inflight[k] = Idle

\* A tab button.  The scenarios checked: the user changes tabs on a settled
\* page, leaves the Add tab with its form cleared, and leaves the Edit tab
\* by Cancel or by a saved update.
showTab(tab) ==
    /\ ui.activeTab # "edit"
    /\ ui.activeTab = "add" => ui.formData = DefaultForm /\ ui.formMessage = NoMessage
    /\ Settled
    /\ ui' = [ui EXCEPT !.activeTab = tab]
    /\ UNCHANGED <<server, base, log>>

\* The tabs that render the add form, the rows with their edit buttons, and
\* the edit form.
OnTab(tab, A) == ui.activeTab = tab /\ Page(A)

NextForm ==
    \/ \E tab \in {"add", "transactions"} : Page(showTab(tab))
    \/ \E name \in FormFields : \E value \in FormValues(name) :
          OnTab("add", handleFormChange(name, value))
    \/ OnTab("add", clearForm)
    \/ OnTab("add", handleFormSubmit)
    \/ \E n \in 1..Len(ui.transactions) : OnTab("transactions", Settled /\ handleEdit(ui.transactions[n]))
    \/ OnTab("edit", handleCancelEdit)
    \/ \E name \in EditFields : \E value \in FormValues(name) :
          OnTab("edit", handleEditChange(name, value))
    \/ OnTab("edit", handleUpdateTransaction)
    \/ dismissAlert
    \/ \E n \in 1..MaxFormRequests : ServeForm(n)
    \/ \E n \in 1..MaxFormRequests : Page(FormLost(n))
    \/ \E k \in Slots : Backend(PostSelect(k))
    \/ \E k \in Slots : Backend(PutSelect(k))
    \/ ServeList
    \/ Page(SubmitAnswered)
    \/ Page(UpdateAnswered)
    \/ Page(ListAnswered)

SpecForm == Init /\ [][NextForm]_vars

\* ------------------------------------------------- transaction filters
MaxFilterRequests == 1

\* String(n) of a whole number.
RECURSIVE NatString(_)
NatString(n) ==
    IF n < 10 THEN <<Digits[n + 1]>> ELSE NatString(n \div 10) \o <<Digits[(n % 10) + 1]>>

\* What URLSearchParams.append makes of a value.
ParamText(v) == IF v.t = "number" THEN NatString(v.n \div 1000) ELSE v.s

\* The query string fetchTransactions builds from the filters it sees.
FilterQuery(f) ==
    MkQuery(IF Truthy(f.budget_type) THEN f.budget_type ELSE JsUndefined,
            IF Truthy(f.start_date) THEN f.start_date ELSE JsUndefined,
            IF Truthy(f.end_date) THEN f.end_date ELSE JsUndefined,
            JsStr(ParamText(f.limit)), JsUndefined, JsUndefined)

\* The client-side filter on payedOff.
IsPaid(t) == t.payedOff = JsBool(TRUE) \/ t.payedOff = JsNum(1000)
PayedOffFilter(payedOff, rows) ==
    CASE payedOff = "paid" -> SelectSeq(rows, IsPaid)
      [] payedOff = "unpaid" -> SelectSeq(rows, IsUnpaid)
      [] OTHER -> rows

\* The values chosen in the filter controls.
FilterNames == {"budget_type", "payedOff"}
FilterValues(name) ==
    CASE name = "budget_type" -> {JsStr(<<>>), CatA}
      [] OTHER -> {"all", "unpaid"}
SetFilter(f, name, value) ==
    CASE name = "budget_type" -> [f EXCEPT !.budget_type = value]
      [] OTHER -> [f EXCEPT !.payedOff = value]

handleFilterChange(name, value) ==
    /\ ui' = [ui EXCEPT !.filters = SetFilter(@, name, value)]
    /\ UNCHANGED <<server, base, log>>

\* fetchTransactions up to its first await, called in a render whose filters
\* are f: the request is built from f, and f is what the rest of the call
\* sees.
fetchTransactions(u, f) ==
    [u EXCEPT !.filterRequests = Append(@, [sent |-> TRUE, filters |-> f,
                                            afterReset |-> u.resetPending]),
              !.resetPending = FALSE]

applyFilters ==
    /\ Len(ui.filterRequests) < MaxFilterRequests
    /\ ui' = fetchTransactions(ui, ui.filters)
    /\ UNCHANGED <<server, base, log>>

\* setFilters(cleared) takes effect with the next render; the timer is
\* handed the fetchTransactions of the render in which Reset was clicked,
\* whose filters are those of before the click.
resetFilters ==
    /\ ~ui.timer.pending
    /\ ui' = [ui EXCEPT !.filters = ClearedFilters,
                       !.timer = [pending |-> TRUE, filters |-> ui.filters],
                       !.resetPending = TRUE]
    /\ UNCHANGED <<server, base, log>>

\* The timer of resetFilters fires.
FilterTimeout ==
    /\ ui.timer.pending
    /\ Len(ui.filterRequests) < MaxFilterRequests
    /\ ui' = fetchTransactions([ui EXCEPT !.timer = NoTimer], ui.timer.filters)
    /\ UNCHANGED <<server, base, log>>

\* A request of fetchTransactions reaches the server.
ServeFilterList(n) ==
    /\ resp = NoResp
    /\ n \in DOMAIN ui.filterRequests
    /\ ~ui.applying.sent
    /\ List(FilterQuery(ui.filterRequests[n].filters))
    /\ ui' = [ui EXCEPT !.filterRequests = Remove(@, n), !.applying = ui.filterRequests[n]]
    /\ UNCHANGED <<base, log>>

\* fetchTransactions after its awaits.
FilterListAnswered ==
    /\ resp.kind = "list"
    /\ ui.applying.sent
    /\ resp' = NoResp
    /\ ui' = IF resp.sends[1].json.success
             THEN [ui EXCEPT !.transactions =
                                 PayedOffFilter(ui.applying.filters.payedOff,
                                                resp.sends[1].json.data),
                             !.applying = NoFetch]
             ELSE [ui EXCEPT !.applying = NoFetch]
    /\ UNCHANGED <<useSqlite, cors, bulk, table, nextId, inflight, created, deletedOk, base, log>>

ReceiveCreated == resp.kind = "post" /\ Receive

\* The scenarios checked: the user touches the filter controls while no
\* timer and no request of theirs is pending.
FilterIdle == ~ui.timer.pending /\ ui.filterRequests = <<>> /\ ~ui.applying.sent

NextFilter ==
    \/ \E body \in ConcBodies : Backend(Post(body))
    \/ \E k \in Slots : Backend(PostSelect(k))
    \/ ReceiveCreated
    \/ \E name \in FilterNames : \E value \in FilterValues(name) :
          FilterIdle /\ handleFilterChange(name, value)
    \/ FilterIdle /\ applyFilters
    \/ FilterIdle /\ resetFilters
    \/ FilterTimeout
    \/ \E n \in 1..MaxFilterRequests : ServeFilterList(n)
    \/ FilterListAnswered

SpecFilter == Init /\ [][NextFilter]_vars

\* =================================================================== claims
\* What the last step sent (the claims below speak of an answered request).
Answered == resp # NoResp
Status == resp.sends[1].status
Json == resp.sends[1].json
Resolved == Answered /\ resp.err = ""

\* A submitted value read as a number: a number is itself, a string counts
\* when the whole of it is a decimal literal, anything else is no number.
AsNumber(v) ==
    CASE v.t = "number" -> v
      [] v.t = "string" ->
            IF v.s # <<>> /\ NumericPrefixLen(v.s) = Len(v.s) THEN ParseFloatStr(v.s)
            ELSE JsNaN
      [] OTHER -> JsNaN

AbsentOrEmpty(v) == v.t = "undefined" \/ v = JsStr(<<>>)

\* The row that carries the values of a submitted body, as C1 words it; the
\* amount is compared to the two decimals the data model gives an amount.
SubmittedFields(row, body) ==
    /\ row.date = body.date
    /\ row.name = (IF AbsentOrEmpty(body.name) THEN JsNull ELSE body.name)
    /\ row.description = (IF AbsentOrEmpty(body.description) THEN JsNull ELSE body.description)
    /\ row.budget_type = body.budget_type
    /\ AsNumber(body.amount).t = "number"
    /\ row.amount.t = "number"
    /\ RoundCents(row.amount.n) = RoundCents(AsNumber(body.amount).n)
    /\ row.payedOff = (IF body.payedOff.t = "undefined" THEN JsBool(TRUE) ELSE body.payedOff)

\* C1 (as claimed): after a POST answered 201 with a row of id i and no
\* UPDATE or DELETE of row i since, a GET of i answers 200 with a row whose
\* six fields are the values submitted and which is the row the 201 carried.
C1_CreateFetchRoundTrip ==
    (Resolved /\ resp.kind = "get" /\ created[resp.id] # NoCreated) =>
        /\ Status = 200
        /\ Json.data = created[resp.id].row
        /\ SubmittedFields(Json.data, created[resp.id].body)

\* C2: once a DELETE of id i has answered success, a GET of i whose query
\* resolves answers 404 'Transaction not found', and no list response
\* carries a row of id i.
C2_DeleteThenFetch ==
    /\ (Resolved /\ resp.kind = "get" /\ resp.id \in deletedOk) =>
          /\ Status = 404
          /\ Json.success = FALSE
          /\ Json.error = "Transaction not found"
    /\ (Resolved /\ resp.kind = "list") =>
          \A k \in DOMAIN Json.data : Json.data[k].id \notin deletedOk

C2_Witness ==
    /\ Resolved /\ resp.kind = "get" /\ resp.id \in deletedOk /\ Status = 404
    /\ DOMAIN table # {}

\* A filter that is given: a parameter that is present and not empty.
Given(v) == v.t = "string" /\ v.s # <<>>

\* The row passes the three filters of the query, dates compared as calendar
\* days, both bounds included.
PassesFilters(row, q) ==
    /\ Given(q.budget_type) => row.budget_type = q.budget_type
    /\ Given(q.start_date) => DateKey(row.date.s) >= DateKey(q.start_date.s)
    /\ Given(q.end_date) => DateKey(row.date.s) <= DateKey(q.end_date.s)

QueryLimit(q) == IF q.limit.t = "undefined" THEN DefaultLimit ELSE DigitsValue(q.limit.s, 1, Len(q.limit.s))

\* C3: a list response carries only rows that pass the given filters, and
\* when offset is 0 and no more rows pass than limit, every stored row that
\* passes is in it.
C3_ListFiltering ==
    (Resolved /\ resp.kind = "list") =>
        /\ \A k \in DOMAIN Json.data : PassesFilters(Json.data[k], resp.query)
        /\ LET passing == {i \in DOMAIN table : PassesFilters(table[i], resp.query)}
           IN  (resp.query.offset.t = "undefined" /\ Cardinality(passing) <= QueryLimit(resp.query))
                  => \A i \in passing : \E k \in DOMAIN Json.data : Json.data[k] = RowOut(table, i)

\* A list filtered by category and by a date range whose two bounds are the
\* date of the row it returns, while the table holds another row.
C3_Witness ==
    /\ Resolved /\ resp.kind = "list"
    /\ Given(resp.query.budget_type) /\ Given(resp.query.start_date) /\ Given(resp.query.end_date)
    /\ Len(Json.data) = 1
    /\ Json.data[1].date = resp.query.start_date
    /\ Cardinality(DOMAIN table) = 2

\* C4 (as claimed): every response has a boolean success and a data field,
\* and error is the only other field.
C4_Envelope ==
    Answered =>
        \A k \in DOMAIN resp.sends :
            /\ {"success", "data"} \subseteq DOMAIN resp.sends[k].json
            /\ DOMAIN resp.sends[k].json \subseteq {"success", "data", "error"}
            /\ resp.sends[k].json.success \in BOOLEAN

\* C4 (amended): every response a route handler sends has a boolean success;
\* with success false it carries error and nothing else; with success true it
\* carries no error, carries data unless it is the health check or a create
\* on SQLite whose row was gone when it was read back, and may add count,
\* message or database.
C4_EnvelopeAmended ==
    Answered =>
        \A k \in DOMAIN resp.sends :
            LET j == resp.sends[k].json
            IN  /\ "success" \in DOMAIN j
                /\ j.success \in BOOLEAN
                /\ ~j.success => DOMAIN j = {"success", "error"}
                /\ j.success =>
                      /\ DOMAIN j \subseteq {"success", "data", "count", "message", "database"}
                      /\ \/ "data" \in DOMAIN j
                         \/ resp.kind = "health"
                         \/ resp.kind = "post" /\ useSqlite /\ resp.id \notin DOMAIN table

C4_Witness == Answered /\ ~Json.success /\ resp.kind = "list"

\* A body C5 calls invalid: date, amount or budget_type is missing, or the
\* amount is no number.
LacksRequired(body) ==
    \/ body.date.t = "undefined"
    \/ body.amount.t = "undefined"
    \/ body.budget_type.t = "undefined"
    \/ isNaN(AsNumber(body.amount))

\* C5 (as claimed): a POST or PUT with such a body, and a category breakdown
\* without month, is answered 4xx with success false and an error message,
\* and the request has not changed the table.
C5_ValidationErrors ==
    (Resolved /\ \/ resp.kind \in {"post", "put"} /\ LacksRequired(resp.body)
                 \/ resp.kind = "analytics/category-breakdown" /\ resp.query.month.t = "undefined")
        => /\ Status \in 400..499
           /\ Json.success = FALSE
           /\ "error" \in DOMAIN Json
           /\ ~resp.changed

C7_UncaughtErrors ==
    /\ Answered =>
          /\ Len(resp.sends) = 1
          /\ resp.err # "" => /\ Status = 500
                              /\ Json = [success |-> FALSE, error |-> resp.err]
    /\ \A k \in Slots :
          (inflight[k] # Idle /\ resp = NoResp) =>
              ENABLED (PostSelect(k) \/ PutSelect(k) \/ DeleteRun(k))

\* The second query of a handler rejected.
C7_Witness == Answered /\ resp.errAt = 2 /\ Status = 500

\* C8 (as claimed): every stored row has a positive amount, a category and a
\* date.
C8_DataInvariant ==
    \A i \in DOMAIN table :
        /\ table[i].amount.t = "number" /\ table[i].amount.n > 0
        /\ Truthy(table[i].budget_type)
        /\ Truthy(table[i].date)


\* C9 (as claimed, for batches none of whose queries rejects): when the
\* overlapping handlers have all answered, their responses and the table
\* are those of the same requests run one after the other in some order.
C9_Serializable ==
    (Quiescent /\ \A n \in DOMAIN log : log[n].err = "") =>
        \E p \in Orderings(DOMAIN log) :
            SerialRun(useSqlite, base, log, p, 1, [table |-> table, nextId |-> nextId])


\* C10: every DELETE request of the frontend is sent by confirmDelete while
\* showDeleteConfirm holds a transaction handed to handleDelete, and is for
\* the id of that transaction; confirmDelete with no confirmation pending,
\* handleDelete and cancelDelete send nothing, and cancelDelete leaves the
\* dialog closed; no DELETE reaches the server any other way.
C10_DeleteThroughDialog ==
    /\ \A n \in DOMAIN ui.outbox :
          ui.outbox[n].method = "DELETE" /\ ui.outbox[n].id \in ui.asked
    /\ ui.last.sends # <<>> =>
          /\ ui.last.handler = "confirmDelete"
          /\ ui.last.held # NoConfirm
          /\ ui.last.held.id \in ui.asked
          /\ ui.last.sends = <<DeleteRequest(ui.last.held.id)>>
    /\ ui.last.handler = "cancelDelete" => ui.showDeleteConfirm = NoConfirm
    /\ ui.showDeleteConfirm # NoConfirm => ui.showDeleteConfirm.id \in ui.asked
    /\ \A k \in Slots : inflight[k].kind = "delete" => inflight[k].id \in ui.asked
    /\ resp.kind = "delete" => resp.id \in ui.asked

\* A confirmed deletion answered with success.
C10_Witness ==
    /\ resp.kind = "delete"
    /\ Status = 200
    /\ ui.last.handler = "confirmDelete"
    /\ ui.last.sends = <<DeleteRequest(resp.id)>>


\* The number of rows a limit or offset parameter asks for (its default when
\* the parameter is absent).
PageParam(v, d) == IF v.t = "undefined" THEN d ELSE parseInt(v).n \div 1000

\* The rows of data come by date descending.
DateDescending(data) ==
    \A i, j \in DOMAIN data : i < j => DateKey(data[i].date.s) >= DateKey(data[j].date.s)

\* C11: a list response with limit >= 0 and offset >= 0 carries count equal
\* to the length of data, and data is, of the stored rows that pass the
\* filters taken by date descending, those after the first offset, limit of
\* them at most and all of them when fewer remain.
C11_Pagination ==
    (Resolved /\ resp.kind = "list") =>
        LET lim == PageParam(resp.query.limit, DefaultLimit)
            off == PageParam(resp.query.offset, DefaultOffset)
            passing == {i \in DOMAIN table : PassesFilters(table[i], resp.query)}
            n == Cardinality(passing)
        IN  /\ Json.count = Len(Json.data)
            /\ (lim >= 0 /\ off >= 0) =>
                  /\ DateDescending(Json.data)
                  /\ Len(Json.data) <= lim
                  /\ Len(Json.data) = (IF n - off <= 0 THEN 0
                                       ELSE IF n - off <= lim THEN n - off ELSE lim)
                  /\ \E p \in Orderings(passing) :
                        /\ DateDescending([k \in 1..n |-> table[p[k]]])
                        /\ \A k \in DOMAIN Json.data : Json.data[k] = RowOut(table, p[off + k])

\* A page that skips the newest row and stops before the oldest.
C11_Witness ==
    /\ Resolved /\ resp.kind = "list"
    /\ resp.query.limit = JsStr(<<"1">>) /\ resp.query.offset = JsStr(<<"1">>)
    /\ Cardinality(DOMAIN table) = 2
    /\ Len(Json.data) = 1


\* The GET routes, and the routes that write.
ReadKinds ==
    {"list", "get", "summary/budget-types", "summary/monthly", "analytics/category-breakdown",
     "analytics/trends", "stats/overview", "available-months", "budget-types", "health"}
WriteKinds == {"post", "put", "delete"}

\* C12: a step of a GET handler, answered with success or with an error,
\* leaves the table as it was, and every step that changes the table is a
\* step of a POST, PUT or DELETE handler.
C12_ReadOnly ==
    [][ /\ (resp = NoResp /\ resp'.kind \in ReadKinds) => table' = table
        /\ table' # table =>
              \/ resp'.kind \in WriteKinds
              \/ \E k \in Slots : inflight[k] = Idle /\ inflight'[k].kind \in WriteKinds ]_vars

\* An aggregate endpoint has failed over a table that holds rows.
C12_Witness ==
    /\ Answered /\ resp.kind = "stats/overview" /\ resp.err # "" /\ Status = 500
    /\ DOMAIN table # {}


\* The stored rows of category c dated in the calendar month M (YYYY-MM).
DatedIn(c, M) ==
    {i \in DOMAIN table :
        /\ table[i].budget_type = c
        /\ DateKey(table[i].date.s) \div 100 = 100 * DigitsValue(M, 1, 4) + DigitsValue(M, 6, 2)}

RECURSIVE AmountsOf(_)
AmountsOf(S) ==
    IF S = {} THEN 0
    ELSE LET i == CHOOSE x \in S : TRUE IN table[i].amount.n + AmountsOf(S \ {i})

\* C13: the breakdown of month M carries one row for each category that has
\* a row dated in M and no other row; each carries the number and the sum of
\* the amounts of the rows of its category dated in M; the rows come by
\* total_amount descending.
C13_CategoryBreakdown ==
    (Resolved /\ resp.kind = "analytics/category-breakdown" /\ Truthy(resp.query.month)) =>
        LET M == resp.query.month.s
            data == Json.data
        IN  /\ Status = 200
            /\ \A i \in DOMAIN table :
                  DatedIn(table[i].budget_type, M) # {} =>
                      \E k \in DOMAIN data : data[k].budget_type = table[i].budget_type
            /\ \A k, l \in DOMAIN data : data[k].budget_type = data[l].budget_type => k = l
            /\ \A k \in DOMAIN data :
                  /\ DatedIn(data[k].budget_type, M) # {}
                  /\ data[k].transaction_count = Cardinality(DatedIn(data[k].budget_type, M))
                  /\ data[k].total_amount = JsNum(AmountsOf(DatedIn(data[k].budget_type, M)))
            /\ \A k, l \in DOMAIN data : k < l => data[k].total_amount.n >= data[l].total_amount.n

\* The breakdown of a month over a table that also holds a row of another
\* month.
C13_Witness ==
    /\ Resolved /\ resp.kind = "analytics/category-breakdown" /\ Truthy(resp.query.month)
    /\ Len(Json.data) = 1
    /\ Json.data[1].transaction_count = 1
    /\ Cardinality(DOMAIN table) = 2
    /\ \E i \in DOMAIN table : table[i].budget_type = Json.data[1].budget_type
                               /\ i \notin DatedIn(Json.data[1].budget_type, resp.query.month.s)


\* The data the other branch may answer with, for the request just answered
\* and the same table.
OtherBranchData ==
    LET other == ~useSqlite
    IN  CASE resp.kind = "list" -> SqlSelectList(other, table, resp.query)
          [] resp.kind = "summary/budget-types" -> BudgetSummaryRows(table)
          [] resp.kind = "summary/monthly" -> MonthlySummaryRows(other, table)
          [] resp.kind = "analytics/category-breakdown" ->
                CategoryBreakdownRows(table, resp.query.month)
          [] resp.kind = "analytics/trends" -> TrendRows(other, table)
          [] resp.kind = "stats/overview" -> {OverviewRow(other, table)}
          [] resp.kind = "available-months" -> AvailableMonths(table)
          [] resp.kind = "budget-types" -> BudgetTypes(table)
          [] OTHER -> {Json.data}

\* C14 (as claimed): what a branch answers to a request, the other branch
\* may answer to the same request on the same table, and the row a create
\* or an update writes is the row the other branch would write.
C14_BranchEquivalence ==
    /\ (Resolved /\ Json.success /\ "data" \in DOMAIN Json /\ resp.kind \in ReadKinds) =>
          Json.data \in OtherBranchData
    /\ (Resolved /\ resp.kind = "list") => LimitError(~useSqlite, resp.query) = ""
    /\ (Resolved /\ resp.kind \in {"post", "put"} /\ Json.success /\ resp.id \in DOMAIN table
            /\ resp.changed) =>
          table[resp.id] = StoredRow(ColumnValues(~useSqlite, Params(resp.body)),
                                     table[resp.id].created_at)


\* The step belongs to the handler of a request of this kind on this id: it
\* answers the request, suspends its handler or resumes it.
StepOf(kind, id) ==
    \/ resp'.kind = kind /\ resp'.id = id
    \/ \E k \in Slots : /\ inflight[k] = Idle
                        /\ inflight'[k].kind = kind /\ inflight'[k].id = id
    \/ \E k \in Slots : /\ inflight'[k] = Idle
                        /\ inflight[k].kind = kind /\ inflight[k].id = id

OneRowAdded ==
    \E i \in DOMAIN table' \ DOMAIN table :
        /\ DOMAIN table' = DOMAIN table \cup {i}
        /\ \A j \in DOMAIN table : table'[j] = table[j]
        /\ StepOf("post", i)

\* C15: every step that changes the table adds one row under a new id and
\* keeps the others (a POST), or changes row i alone and keeps its
\* created_at (a PUT on i), or removes row i alone (a DELETE on i); and the
\* INSERT of every accepted POST adds one row.
C15_SingleRowEffect ==
    [][ /\ table' # table =>
              \/ OneRowAdded
              \/ \E i \in DOMAIN table :
                    /\ DOMAIN table' = DOMAIN table
                    /\ \A j \in DOMAIN table \ {i} : table'[j] = table[j]
                    /\ table'[i].created_at = table[i].created_at
                    /\ StepOf("put", i)
              \/ \E i \in DOMAIN table :
                    /\ DOMAIN table' = DOMAIN table \ {i}
                    /\ \A j \in DOMAIN table' : table'[j] = table[j]
                    /\ StepOf("delete", i)
        /\ (resp = NoResp /\ resp'.kind = "post" /\ ~useSqlite /\ resp'.sends[1].status = 201)
              => OneRowAdded
        /\ (\E k \in Slots : inflight[k] = Idle /\ inflight'[k].kind = "post") => OneRowAdded
      ]_vars

\* An accepted PUT has changed one of two rows.
C15_Witness ==
    /\ Resolved /\ resp.kind = "put" /\ Status = 200 /\ resp.changed
    /\ Cardinality(DOMAIN table) = 2


\* The step runs the INSERT or UPDATE of a request of this kind on id i
\* with body b, and the statement resolves.
Writes(kind, i, b) ==
    \/ /\ ~useSqlite /\ resp = NoResp
       /\ resp'.kind = kind /\ resp'.id = i /\ resp'.body = b
       /\ resp'.err = "" /\ resp'.sends[1].json.success
    \/ \E k \in Slots : /\ inflight[k] = Idle
                        /\ inflight'[k].kind = kind /\ inflight'[k].id = i
                        /\ inflight'[k].body = b

\* C16: the row a POST or PUT writes holds payedOff true when the body has
\* no payedOff and the payedOff of the body otherwise; a PUT without
\* payedOff on an unpaid row leaves the row paid.
C16_PayedOffDefault ==
    [][ \A i \in DOMAIN table', b \in Bodies :
            /\ (Writes("post", i, b) \/ Writes("put", i, b)) =>
                  table'[i].payedOff = (IF b.payedOff.t = "undefined" THEN JsBool(TRUE)
                                        ELSE b.payedOff)
            /\ (Writes("put", i, b) /\ b.payedOff.t = "undefined" /\ i \in DOMAIN table
                    /\ table[i].payedOff = JsBool(FALSE)) =>
                  table'[i].payedOff = JsBool(TRUE) ]_vars

\* A PUT without payedOff has been answered 200, has changed the only row of
\* the table, and the row is paid.
C16_Witness ==
    /\ Resolved /\ resp.kind = "put" /\ Status = 200 /\ resp.changed
    /\ resp.body.payedOff.t = "undefined"
    /\ resp.id \in DOMAIN table /\ table[resp.id].payedOff = JsBool(TRUE)
    /\ DOMAIN table = {resp.id} /\ nextId = resp.id + 1


\* a <= b as JavaScript evaluates it.
JsLeq(a, b) ==
    IF a.t = "string" /\ b.t = "string" THEN TextLeq(a.s, b.s)
    ELSE /\ ToNumber(a).t = "number" /\ ToNumber(b).t = "number"
         /\ ToNumber(a).n <= ToNumber(b).n

\* C17 (as claimed): sortedTransactions is a permutation of
\* monthlyTransactions in which the value of the sort key of each row is <=
\* that of the next row (asc), or >= it (desc).
C17_ClientSorting ==
    LET sorted == ui.sortedTransactions
        items == ui.monthlyTransactions
        key == ui.sortConfig.key
    IN  /\ \E p \in Orderings(DOMAIN items) :
              sorted = [k \in DOMAIN items |-> items[p[k]]]
        /\ \A k \in 1..(Len(sorted) - 1) :
              IF ui.sortConfig.direction = "asc"
              THEN JsLeq(sorted[k][key], sorted[k + 1][key])
              ELSE JsLeq(sorted[k + 1][key], sorted[k][key])

\* C18: each completed fetchUnpaidTransactions leaves in unpaidTransactions
\* every stored row whose payedOff is false and no row whose payedOff is
\* true, however many rows the table holds.
UnpaidStored == {RowOut(table, i) : i \in {j \in DOMAIN table : IsUnpaid(table[j])}}
C18_UnpaidTab ==
    [][ (UnpaidAnswered /\ resp.err = "" /\ resp' = NoResp) =>
            /\ UnpaidStored \subseteq {ui'.unpaidTransactions[k] : k \in DOMAIN ui'.unpaidTransactions}
            /\ \A k \in DOMAIN ui'.unpaidTransactions :
                  IsUnpaid(ui'.unpaidTransactions[k]) ]_vars

\* C19: the range fetchMonthlyTransactions requests for a month runs from the
\* first to the last calendar day of that month, so a stored date lies in
\* the range (as the list route compares) exactly when category-breakdown
\* assigns it to the month.
C19_MonthRange ==
    ui.monthRequest # NoMonthRequest =>
        LET r == ui.monthRequest
            y == DigitsValue(r.month, 1, 4)
            m == DigitsValue(r.month, 6, 2)
        IN  /\ r.start_date = IsoDate(y, m, 1)
            /\ r.end_date = IsoDate(y, m, DaysInMonth(y, m))
            /\ \A d \in StoredDates(useSqlite) :
                  (DateLeq(useSqlite, r.start_date, d) /\ DateLeq(useSqlite, d, r.end_date))
                      <=> MonthText(d) = r.month

\* C20: selectedMonth is always '' or one of availableMonths, and each
\* completed fetchAvailableMonths with a non-empty result sets selectedMonth
\* to the most recent month.
MonthSelectable(u) ==
    u.selectedMonth = <<>> \/ \E k \in DOMAIN u.availableMonths : u.availableMonths[k] = u.selectedMonth
C20_SelectedMonth ==
    [][ /\ MonthSelectable(ui')
        /\ (MonthsAnswered /\ resp' = NoResp /\ resp.err = ""
              /\ Len(resp.sends[1].json.data) > 0) =>
               /\ ui'.selectedMonth = resp.sends[1].json.data[1]
               /\ \A k \in DOMAIN ui'.availableMonths :
                     TextLeq(ui'.availableMonths[k], ui'.selectedMonth) ]_vars

\* C21: the CORS check accepts a request exactly when it carries no Origin
\* header or its Origin is one of the trimmed comma-separated entries of
\* CORS_ORIGINS (only http://localhost:3000 when CORS_ORIGINS is unset); every
\* other origin is rejected with 'Not allowed by CORS'.
\* An entry of cs: a stretch between commas (or the ends) that holds none.
IsEntry(cs, i, j) ==
    /\ i = 1 \/ cs[i - 1] = ","
    /\ j = Len(cs) \/ cs[j + 1] = ","
    /\ \A k \in i..j : cs[k] # ","
\* t is seg without the spaces around it.
IsTrimOf(t, seg) ==
    /\ t = <<>> \/ (t[1] # " " /\ t[Len(t)] # " ")
    /\ \E a \in 0..Len(seg) :
          /\ a + Len(t) <= Len(seg)
          /\ SubSeq(seg, a + 1, a + Len(t)) = t
          /\ \A k \in (1..a) \cup ((a + Len(t) + 1)..Len(seg)) : seg[k] = " "
Listed(o, cs) ==
    \E i \in 1..(Len(cs) + 1), j \in 0..Len(cs) :
        i <= j + 1 /\ IsEntry(cs, i, j) /\ IsTrimOf(o, SubSeq(cs, i, j))
CorsAccepted == cors.error = ""
C21_Cors ==
    cors.checked =>
        /\ CorsAccepted <=>
              \/ cors.origin = JsUndefined
              \/ IF cors.env = JsUndefined THEN cors.origin.s = LocalhostOrigin
                 ELSE Listed(cors.origin.s, cors.env.s)
        /\ ~CorsAccepted => cors.error = "Not allowed by CORS"

\* C21 as amended: an empty Origin header counts as none, and an empty
\* CORS_ORIGINS as unset.
C21_CorsAmended ==
    cors.checked =>
        /\ CorsAccepted <=>
              \/ cors.origin = JsUndefined
              \/ cors.origin.s = <<>>
              \/ IF cors.env = JsUndefined \/ cors.env.s = <<>>
                 THEN cors.origin.s = LocalhostOrigin
                 ELSE Listed(cors.origin.s, cors.env.s)
        /\ ~CorsAccepted => cors.error = "Not allowed by CORS"

\* C21 witness: an origin is accepted because an entry of CORS_ORIGINS,
\* trimmed, equals it.
C21_Witness ==
    /\ cors.checked
    /\ cors.env = JsStr(<<"b", ",", " ", "a">>) \/ cors.env = JsStr(<<",", " ", "a">>)
    /\ cors.origin = JsStr(<<"a">>)
    /\ CorsAccepted

\* C22: handleFormSubmit and handleUpdateTransaction send a POST/PUT only
\* when date, budget_type and amount are non-empty and the amount is a number
\* greater than 0; otherwise no request is sent, an error is shown and the
\* form contents are kept; and a step of the submit flow changes formData
\* only by resetting it to its defaults after a response with success = true.
Filled(v) == v.t \notin {"undefined", "null"} /\ v # JsStr(<<>>)
ValidForm(f) ==
    /\ Filled(f.date) /\ Filled(f.budget_type) /\ Filled(f.amount)
    /\ AsNumber(f.amount).t = "number" /\ AsNumber(f.amount).n > 0
\* The form a request of the given method is built from.
FormOf(u, method) == IF method = "POST" THEN u.formData ELSE u.editingTransaction
C22_ClientValidation ==
    [][ /\ Len(ui'.outbox) > Len(ui.outbox) =>
              LET request == ui'.outbox[Len(ui'.outbox)]
              IN  /\ request.method \in {"POST", "PUT"}
                  /\ ValidForm(FormOf(ui, request.method))
                  /\ request.body.date = FormOf(ui, request.method).date
                  /\ request.body.budget_type = FormOf(ui, request.method).budget_type
                  /\ request.body.amount = AsNumber(FormOf(ui, request.method).amount)
        /\ (handleFormSubmit /\ ~ValidForm(ui.formData)) =>
              /\ ui'.outbox = ui.outbox
              /\ ui'.formMessage.type = "error"
              /\ ui'.formData = ui.formData
        /\ (handleUpdateTransaction /\ ~ValidForm(ui.editingTransaction)) =>
              /\ ui'.outbox = ui.outbox
              /\ ui'.alert # ""
              /\ ui'.editingTransaction = ui.editingTransaction
        /\ (ui'.formData # ui.formData /\ (resp' # resp \/ ui'.outbox # ui.outbox)) =>
              /\ resp # NoResp /\ resp.kind = "post" /\ FormSucceeded
              /\ ui'.formData = DefaultForm ]_vars

\* C22 witness: after one transaction was added and the form reset, a
\* submit with amount 0 shows the amount error, keeps the form and sends
\* nothing.
C22_Witness ==
    /\ Len(ui.transactions) > 0
    /\ ui.formData.amount = JsStr(<<"0">>)
    /\ ui.formMessage = [type |-> "error", text |-> "Please enter a valid amount greater than 0"]
    /\ ui.outbox = <<>>

\* C23: every DELETE that answers 200 success has itself removed the row
\* with its id; of two overlapping DELETEs of one id at most one answers
\* success and the other answers 404.
C23_DeleteRemovedRow ==
    (Resolved /\ resp.kind = "delete" /\ Status = 200) => resp.changed

\* C24: on SQLite every PUT on id i that answers 200 returns the row of id i
\* with the six columns as its own UPDATE wrote them, and every PUT that
\* answers 404 has changed no row.
PutWrote(row, body) ==
    LET cols == ColumnValues(TRUE, Params(body))
    IN  /\ row.date = cols.date
        /\ row.name = cols.name
        /\ row.description = cols.description
        /\ row.budget_type = cols.budget_type
        /\ row.amount = cols.amount
        /\ row.payedOff = cols.payedOff
C24_UpdateReturnsWritten ==
    (useSqlite /\ Resolved /\ resp.kind = "put") =>
        /\ Status = 200 => (Json.data.id = resp.id /\ PutWrote(Json.data, resp.body))
        /\ Status = 404 => ~resp.changed

\* C25: after Reset, with the controls left at the cleared values, the next
\* transactions request sent carries the cleared filters, and once it is
\* answered with success the list shown holds every stored transaction (the
\* cleared filters keep none out, and fewer than 50 are stored).
C25_ResetFilters ==
    [][ /\ (ui.resetPending /\ ui.filters = ClearedFilters
              /\ Len(ui'.filterRequests) > Len(ui.filterRequests)) =>
               ui'.filterRequests[Len(ui'.filterRequests)].filters = ClearedFilters
        /\ (ui.applying.sent /\ ui.applying.afterReset /\ ~ui'.applying.sent
              /\ ui.filters = ClearedFilters /\ resp.sends[1].json.success) =>
               \A i \in DOMAIN table :
                   \E k \in DOMAIN ui'.transactions : ui'.transactions[k].id = i ]_vars

====
